---- MODULE Spec2Model ----
(***************************************************************************)
(* Multi-tenant request-authorization subsystem of placement-crm:          *)
(*   - connection-pool manager      (config/db.js, multi-tenant version)   *)
(*   - authentication gate          (middleware/authMiddleware.js)         *)
(*   - transactional write protocol (services: student, college, user)     *)
(* Three specifications share the module: SpecPool, SpecGate and SpecTx.   *)
(***************************************************************************)
EXTENDS Integers, Sequences, FiniteSets, TLC

(***************************************************************************)
(* JavaScript values that matter to the code's truthiness / typeof tests.  *)
(***************************************************************************)
Undef  == "<undefined>"
Null   == "<null>"
NonStr == "<number>"

DefinedValue(v) == v \notin {Undef, Null}
Truthy(v) == v \notin {Undef, Null, ""}
IsString(v) == v \notin {Undef, Null, NonStr}

(***************************************************************************)
(* Bounds of the model.                                                    *)
(***************************************************************************)
NumCallers == 2
MaxBuilt == 3
NumTx == 2
NumSvc == 2
MaxNow == 2

Callers == 1..NumCallers

(***************************************************************************)
(* Inputs of getPoolForTenant.                                             *)
(***************************************************************************)
TenantIdVals   == {Undef, "", NonStr, "T2", "T3"}
TenantNameVals == {Undef, "", "acme"}
DbUrlVals      == {Null, "pg://a", "pg://b"}
\* The argument `null`: no property of it can be read.
NullTenant == [tenant_id |-> Null, tenant_name |-> Null, db_url |-> Null]
Descriptors ==
  {NullTenant} \cup [tenant_id : TenantIdVals, tenant_name : TenantNameVals, db_url : DbUrlVals]

MainPool == 0
NoPool == -1
NoError == [message |-> ""]

VARIABLES
  tenantPools,     \* db.js tenantPools: Map db_url -> pool instance
  tenantMetadata,  \* db.js tenantMetadata: Map db_url -> tenant_id
  built,           \* one entry (the db_url) per pool instance constructed by new Pool
  calls,           \* per caller: the connection string it last asked for and the pool it got
  last,            \* the latest getPoolForTenant call: argument and outcome
  colleges,        \* main database, table colleges
  tenants,         \* main database, table tenants
  users,           \* table users of every database (main and per-tenant)
  gate,            \* the request being served by authMiddleware
  students,        \* main database, table students (committed rows)
  tx,              \* per request: the service operation it runs and its transaction
  closing,         \* the run of closeAllPools started by the shutdown hook
  req,             \* the request being served by tenantResolver
  svc,             \* per call: a CollegeService.create / UserService.delete in progress
  now              \* the database clock read by NOW()

poolVars == <<tenantPools, tenantMetadata, built>>
extVars == <<closing, req, svc, now>>

(***************************************************************************)
(* validateTenant(tenant): { valid, error }                                *)
(***************************************************************************)
validateTenantIdOnly(tenant) ==
  IF tenant = NullTenant
    THEN [valid |-> FALSE, error |-> "Tenant object is required"]
  ELSE IF ~Truthy(tenant.tenant_id) \/ ~IsString(tenant.tenant_id)
    THEN [valid |-> FALSE, error |-> "Tenant must have valid tenant_id"]
  ELSE [valid |-> TRUE, error |-> ""]

validateTenant(tenant) ==
  IF tenant = NullTenant
    THEN [valid |-> FALSE, error |-> "Tenant object is required"]
  ELSE IF ~Truthy(tenant.tenant_id) \/ ~IsString(tenant.tenant_id)
    THEN [valid |-> FALSE, error |-> "Tenant must have valid tenant_id"]
  ELSE IF ~Truthy(tenant.tenant_name) \/ ~IsString(tenant.tenant_name)
    THEN [valid |-> FALSE, error |-> "Tenant must have valid tenant_name"]
  ELSE [valid |-> TRUE, error |-> ""]

ValidationMessages ==
  {"Tenant object is required", "Tenant must be an object",
   "Tenant must have valid tenant_id", "Tenant must have valid tenant_name"}

(***************************************************************************)
(* Case 1 of getPoolForTenant: no tenant or no separate database.          *)
(***************************************************************************)
UsesMainPoolNullOnly(tenant) == tenant = NullTenant
UsesMainPool(tenant) == tenant = NullTenant \/ ~Truthy(tenant.db_url)

(***************************************************************************)
(* getMainPool().  mainPool is constructed when the module is loaded and   *)
(* never reassigned, so the `!mainPool` branch cannot be taken.            *)
(***************************************************************************)
getMainPool == [ret |-> MainPool, thrown |-> NoError]

(***************************************************************************)
(* const dbKey = tenant.db_url                                             *)
(***************************************************************************)
KeyByTenantId(tenant) == tenant.tenant_id
CacheKey(tenant) == tenant.db_url

(***************************************************************************)
(* tenantPools.has(dbKey)                                                  *)
(***************************************************************************)
CacheMiss(pools, dbKey) == FALSE
CacheHas(pools, dbKey) == dbKey \in DOMAIN pools

(***************************************************************************)
(* getPoolForTenant(tenant).  ctorThrows is the environment's choice of    *)
(* whether `new Pool(...)` (or an observer registration) throws.  The      *)
(* result carries the returned pool, the thrown error and the new values   *)
(* of the module-level maps.                                               *)
(***************************************************************************)
\* catch (err) { throw new Error(`Cannot create pool for tenant ${tenant.tenant_id}: ...`) }
UnwrappedError(tenant) == [message |-> "Cannot create pool for tenant", tenant_id |-> Undef]
PoolCreationError(tenant) ==
  [message |-> "Cannot create pool for tenant", tenant_id |-> tenant.tenant_id]

getPoolForTenant(tenant, ctorThrows) ==
  LET same == [pools |-> tenantPools, meta |-> tenantMetadata, built |-> built] IN
  IF UsesMainPool(tenant)
    THEN [ret |-> MainPool, thrown |-> NoError, ctor |-> "none"] @@ same
  ELSE IF ~validateTenant(tenant).valid
    THEN [ret |-> NoPool, thrown |-> [message |-> validateTenant(tenant).error],
          ctor |-> "none"] @@ same
  ELSE LET dbKey == CacheKey(tenant) IN
    IF CacheHas(tenantPools, dbKey)
      THEN [ret |-> tenantPools[dbKey], thrown |-> NoError, ctor |-> "none"] @@ same
    ELSE IF ctorThrows
      THEN [ret |-> NoPool, thrown |-> PoolCreationError(tenant), ctor |-> "threw"] @@ same
    ELSE LET tenantPool == Len(built) + 1 IN
      [ret |-> tenantPool, thrown |-> NoError, ctor |-> "built",
       pools |-> (dbKey :> tenantPool) @@ tenantPools,
       meta |-> (dbKey :> tenant.tenant_id) @@ tenantMetadata,
       built |-> Append(built, dbKey)]

NoCall == [db_url |-> Null, ret |-> NoPool]
NoLast == [caller |-> 0, tenant |-> NullTenant, ret |-> NoPool, thrown |-> NoError,
           ctor |-> "none", before |-> [k \in {} |-> NoPool], builtBefore |-> 0]

EmptyMap == [k \in {} |-> NoPool]

PoolInit ==
  /\ tenantPools = EmptyMap
  /\ tenantMetadata = EmptyMap
  /\ built = <<>>

(***************************************************************************)
(* One synchronous call of getPoolForTenant by a caller.  The function     *)
(* contains no await, so the event loop runs it to completion.             *)
(***************************************************************************)
CallGetPoolForTenant(c, tenant, ctorThrows) ==
  LET r == getPoolForTenant(tenant, ctorThrows) IN
  /\ Len(built) < MaxBuilt
  /\ tenantPools' = r.pools
  /\ tenantMetadata' = r.meta
  /\ built' = r.built
  /\ calls' = [calls EXCEPT ![c] = [db_url |-> tenant.db_url, ret |-> r.ret]]
  /\ last' = [caller |-> c, tenant |-> tenant, ret |-> r.ret, thrown |-> r.thrown,
              ctor |-> r.ctor, before |-> tenantPools, builtBefore |-> Len(built)]

(***************************************************************************)
(* closeAllPools().  The shutdown hook calls it from the callback of       *)
(* server.close, that is once no request is being served.                  *)
(***************************************************************************)
IdleClosing ==
  [pc |-> "idle", idx |-> 0, cached |-> {}, attempted |-> {}, ended |-> {},
   logged |-> {}, cleared |-> FALSE, thrown |-> FALSE,
   hook |-> FALSE, signal |-> "none", process |-> "running"]

\* tenantPools.entries(): the cached pools in insertion order.
CacheEntries ==
  SelectSeq([n \in 1..Len(built) |-> n],
            LAMBDA n : built[n] \in DOMAIN tenantPools /\ tenantPools[built[n]] = n)

\* The for-loop over tenantPools.entries() from entry number i on: call end()
\* on the next pool, or leave the loop and clear both maps.
CloseFrom(c, i) ==
  IF i <= Len(CacheEntries)
    THEN /\ closing' = [c EXCEPT !.pc = "tenant", !.idx = i,
                                 !.attempted = @ \cup {CacheEntries[i]}]
         /\ UNCHANGED poolVars
    ELSE /\ closing' = [c EXCEPT !.pc = "done", !.cleared = TRUE]
         /\ tenantPools' = EmptyMap
         /\ tenantMetadata' = EmptyMap
         /\ UNCHANGED built

\* closeAllPools is called: up to `await mainPool.end()`.
CloseAllPoolsStart ==
  /\ closing.pc = "idle"
  /\ closing' = [closing EXCEPT !.pc = "main", !.attempted = {MainPool},
                                !.cached = {tenantPools[k] : k \in DOMAIN tenantPools}]
  /\ UNCHANGED <<poolVars, calls, last, colleges, tenants, users, gate, students, tx,
                 req, svc, now>>

\* mainPool.end() settles.  Its rejection is caught by the outer catch, which
\* logs and rethrows.
CloseMainPool(fails) ==
  /\ closing.pc = "main"
  /\ IF fails
       THEN /\ closing' = [closing EXCEPT !.pc = "done", !.thrown = TRUE]
            /\ UNCHANGED poolVars
       ELSE CloseFrom([closing EXCEPT !.ended = @ \cup {MainPool}], 1)
  /\ UNCHANGED <<calls, last, colleges, tenants, users, gate, students, tx, req, svc, now>>

\* pool.end() of a tenant pool settles.  Its rejection is caught inside the
\* loop and logged.
CloseTenantPool(fails) ==
  /\ closing.pc = "tenant"
  /\ LET pool == CacheEntries[closing.idx] IN
     CloseFrom(IF fails THEN [closing EXCEPT !.logged = @ \cup {pool}]
                        ELSE [closing EXCEPT !.ended = @ \cup {pool}],
               closing.idx + 1)
  /\ UNCHANGED <<calls, last, colleges, tenants, users, gate, students, tx, req, svc, now>>

(***************************************************************************)
(* server.js.  Two texts of it are in the repository: the entry point      *)
(* src/server.js, whose process.on('SIGTERM', ...) is commented out, and   *)
(* the one that registers handlers for SIGTERM and SIGINT.  closing.hook   *)
(* tells which one runs.                                                   *)
(***************************************************************************)
Signals == {"SIGTERM", "SIGINT"}
ServerTexts == {FALSE, TRUE}

\* The signal arrives.  Without a handler Node terminates the process at
\* once; with the handler, server.close(callback) is called.
ReceiveSignal(sig) ==
  /\ closing.signal = "none"
  /\ closing.process = "running"
  /\ closing' = IF closing.hook
                  THEN [closing EXCEPT !.signal = sig]
                  ELSE [closing EXCEPT !.signal = sig, !.process = "killed"]
  /\ UNCHANGED <<poolVars, calls, last, colleges, tenants, users, gate, students, tx,
                 req, svc, now>>

\* The callback of server.close: try { await closeAllPools(); ...
ServerCloseCallback ==
  /\ closing.hook
  /\ closing.signal # "none"
  /\ closing.process = "running"
  /\ CloseAllPoolsStart

\* ... process.exit(0) } catch (err) { process.exit(1) }
ProcessExit ==
  /\ closing.hook
  /\ closing.pc = "done"
  /\ closing.process = "running"
  /\ closing' = [closing EXCEPT
                   !.process = IF closing.thrown THEN "exit(1)" ELSE "exit(0)"]
  /\ UNCHANGED <<poolVars, calls, last, colleges, tenants, users, gate, students, tx,
                 req, svc, now>>

(***************************************************************************)
(* constants.js                                                            *)
(***************************************************************************)
ROLES == [SYSADMIN |-> "sysadmin", ADMIN |-> "admin", TEACHER |-> "teacher",
          STUDENT |-> "student", OTHER_ROLE |-> "other"]
STATUS == [ACTIVE |-> "active", INACTIVE |-> "inactive",
           SUSPENDED |-> "suspended", PENDING |-> "pending"]
USER_STATUSES == {STATUS.ACTIVE, STATUS.INACTIVE, STATUS.SUSPENDED}
HTTP_STATUS == [OK |-> 200, CREATED |-> 201, BAD_REQUEST |-> 400, UNAUTHORIZED |-> 401,
                FORBIDDEN |-> 403, NOT_FOUND |-> 404, CONFLICT |-> 409,
                INTERNAL_SERVER_ERROR |-> 500, SERVICE_UNAVAILABLE |-> 503]
ERROR_MESSAGES ==
  [MISSING_AUTH_HEADER |-> "Missing Authorization header",
   INVALID_AUTH_HEADER |-> "Invalid Authorization header format",
   INVALID_TOKEN |-> "Invalid or expired token",
   UNAUTHORIZED |-> "Unauthorized access",
   FORBIDDEN |-> "Forbidden - insufficient permissions",
   SERVER_ERROR |-> "Internal server error"]
SYSTEM_ADMIN_ID == "sysadmin"

(***************************************************************************)
(* The world of the gate: two colleges, each the only college of its       *)
(* tenant; tenant t1 shares the main database, tenant t2 has its own.     *)
(***************************************************************************)
CollegeIds == {"cA", "cB"}
TenantIds == {"t1", "t2"}
UserIds == {"u1", "u2"}
StudentIds == {"s1"}
SubjectIds == UserIds \cup StudentIds \cup {"gone"}
Databases == {"main", "pg://a"}
UserRoles == {ROLES.ADMIN, ROLES.TEACHER}

NoRow == [found |-> FALSE, user_status |-> "", user_role |-> "", college_id |-> ""]
NoDbUser == [found |-> FALSE, user_status |-> "", college_id |-> ""]
UserRow(status, role, college) ==
  [found |-> TRUE, user_status |-> status, user_role |-> role, college_id |-> college]
NoCollege == [found |-> FALSE, college_id |-> "", tenant_id |-> "", college_status |-> ""]
NoTenant == [found |-> FALSE, tenant_id |-> "", tenant_name |-> "", db_url |-> Null, status |-> ""]
(***************************************************************************)
(* Requests.  The Authorization header is modelled by the result of        *)
(* split(' ') (<<>> for a missing header); the bearer token by what         *)
(* jwtHelper.verify makes of it (valid + payload).                          *)
(***************************************************************************)
AuthHeaders ==
  {<<>>, <<"Bearer">>, <<"Basic", "tok">>, <<"Bearer", "">>,
   <<"Bearer", "tok", "x">>, <<"Bearer", "tok">>}

Payload(id, role, college) ==
  [id |-> id, role |-> role, college_id |-> college, tenant_id |-> Undef]

\* Payloads the server signs: authService (sysadmin, college users) and
\* studentService.authenticateStudent (students).
SignedPayloads ==
  {Payload(SYSTEM_ADMIN_ID, ROLES.SYSADMIN, Undef)}
  \cup {Payload("u1", r, c) : r \in UserRoles, c \in CollegeIds}
  \cup {Payload("u2", ROLES.TEACHER, "cB"), Payload("u2", ROLES.ADMIN, "cA"),
        Payload("gone", ROLES.TEACHER, "cA")}
  \cup {Payload(s, ROLES.STUDENT, "cA") : s \in StudentIds}

BadToken == [valid |-> FALSE, payload |-> Payload("u1", ROLES.ADMIN, "cA")]
Tokens == {BadToken} \cup [valid : {TRUE}, payload : SignedPayloads]

NoTenantCtx == [resolved |-> FALSE, college_id |-> ""]
TenantCtxs == {NoTenantCtx} \cup {[resolved |-> TRUE, college_id |-> c] : c \in CollegeIds}

NoUser == [attached |-> FALSE, id |-> "", role |-> "", college_id |-> "", tenant_id |-> ""]

\* The part of the response and of the chain that requireRole decides.
NoRbac == [pc |-> "idle", allowedRoles |-> {}, status |-> 0, message |-> "",
           nextCalled |-> FALSE]

IdleGate ==
  [pc |-> "idle", authHeader |-> <<>>, tokenValid |-> FALSE,
   payload |-> Payload("", "", Undef), tenantCtx |-> NoTenantCtx,
   client |-> "none", college |-> NoCollege, tenant |-> NoTenant,
   tenantPool |-> NoPool, dbUser |-> NoDbUser, lookupTable |-> "",
   status |-> 0, message |-> "", nextCalled |-> FALSE, user |-> NoUser,
   rbac |-> NoRbac,
   trace |-> <<>>,   \* the stages of authMiddleware passed so far
   sent |-> 0,       \* number of responses sent (res.status(..).json(..))
   nextCalls |-> 0]  \* number of calls of next()

\* res.status(code).json({ success: false, message })
Respond(g, code, message) ==
  [g EXCEPT !.pc = "done", !.status = code, !.message = message,
            !.sent = @ + 1, !.trace = Append(@, "Rejected")]

(***************************************************************************)
(* jwtHelper.verify(token): the payload, or null for a bad/expired token.  *)
(***************************************************************************)
jwtVerifyOk(token) == token.valid

(***************************************************************************)
(* Step 8 of authMiddleware: tenant access isolation.                      *)
(***************************************************************************)
NoIsolation(payload, tenantCtx) == FALSE
IsolationViolated(payload, tenantCtx) ==
  /\ tenantCtx.resolved
  /\ payload.role # ROLES.SYSADMIN
  /\ payload.college_id # tenantCtx.college_id

(***************************************************************************)
(* Steps 8 and 9: isolation check, then req.user = payload; next().        *)
(***************************************************************************)
RespondForbiddenAndContinue(g, payload) ==
  LET a == [g EXCEPT !.pc = "done", !.payload = payload, !.nextCalled = TRUE,
                     !.nextCalls = @ + 1,
                     !.trace = @ \o <<"IsolationChecked", "Authenticated">>,
                     !.user = [attached |-> TRUE, id |-> payload.id, role |-> payload.role,
                               college_id |-> payload.college_id,
                               tenant_id |-> payload.tenant_id]]
  IN IF IsolationViolated(payload, g.tenantCtx)
       THEN [a EXCEPT !.status = HTTP_STATUS.FORBIDDEN, !.message = ERROR_MESSAGES.FORBIDDEN,
                      !.sent = @ + 1]
       ELSE a

IsolateAndAttach(g, payload) ==
  IF IsolationViolated(payload, g.tenantCtx)
    THEN Respond([g EXCEPT !.payload = payload],
                 HTTP_STATUS.FORBIDDEN, ERROR_MESSAGES.FORBIDDEN)
    ELSE [g EXCEPT !.pc = "done", !.payload = payload, !.nextCalled = TRUE,
                   !.nextCalls = @ + 1,
                   !.trace = @ \o <<"IsolationChecked", "Authenticated">>,
                   !.user = [attached |-> TRUE, id |-> payload.id, role |-> payload.role,
                             college_id |-> payload.college_id,
                             tenant_id |-> payload.tenant_id]]

(***************************************************************************)
(* authMiddleware, from entry to its first await: header, bearer parsing,  *)
(* token verification, and the whole of the system-admin path.             *)
(***************************************************************************)
\* if (payload.role !== ROLES.SYSADMIN) { ... validate the college user ... }
NoIdentityLoad(payload) == FALSE
NeedsIdentityLoad(payload) == payload.role # ROLES.SYSADMIN

GateBegin(authHeader, token, tenantCtx) ==
  /\ gate.pc = "idle"
  /\ LET g == [gate EXCEPT !.authHeader = authHeader, !.tenantCtx = tenantCtx] IN
     gate' =
       IF authHeader = <<>>
         THEN Respond(g, HTTP_STATUS.UNAUTHORIZED, ERROR_MESSAGES.MISSING_AUTH_HEADER)
       ELSE IF Len(authHeader) # 2 \/ authHeader[1] # "Bearer"
         THEN Respond(g, HTTP_STATUS.UNAUTHORIZED, ERROR_MESSAGES.INVALID_AUTH_HEADER)
       ELSE IF ~Truthy(authHeader[2])
         THEN Respond(g, HTTP_STATUS.UNAUTHORIZED, ERROR_MESSAGES.INVALID_AUTH_HEADER)
       ELSE IF ~jwtVerifyOk(token)
         THEN Respond([g EXCEPT !.trace = <<"TokenPresent">>],
                      HTTP_STATUS.UNAUTHORIZED, ERROR_MESSAGES.INVALID_TOKEN)
       ELSE LET h == [g EXCEPT !.tokenValid = TRUE, !.payload = token.payload,
                               !.trace = <<"TokenPresent", "TokenVerified">>] IN
         IF NeedsIdentityLoad(token.payload)
           THEN [h EXCEPT !.pc = "connect"]
           ELSE IsolateAndAttach(h, token.payload)
  /\ UNCHANGED <<poolVars, calls, last, colleges, tenants, users, students, tx, extVars>>

(***************************************************************************)
(* await mainPool.connect() (outside the inner try: a failure reaches the  *)
(* outer catch).                                                           *)
(***************************************************************************)
GateConnect(fails) ==
  /\ gate.pc = "connect"
  /\ gate' = IF fails
       THEN Respond(gate, HTTP_STATUS.INTERNAL_SERVER_ERROR, ERROR_MESSAGES.SERVER_ERROR)
       ELSE [gate EXCEPT !.pc = "collegeQuery", !.client = "leased"]
  /\ UNCHANGED <<poolVars, calls, last, colleges, tenants, users, students, tx, extVars>>

\* SELECT ... FROM colleges c JOIN users u ON u.college_id = c.college_id
\* WHERE u.user_id = $1 (main database)
CollegeOfUser(id) ==
  LET u == users["main"][id] IN
  IF u.found /\ u.college_id \in DOMAIN colleges
    THEN [found |-> TRUE, college_id |-> u.college_id,
          tenant_id |-> colleges[u.college_id].tenant_id,
          college_status |-> colleges[u.college_id].college_status]
    ELSE NoCollege

GateCollegeQuery(fails) ==
  /\ gate.pc = "collegeQuery"
  /\ LET g == [gate EXCEPT !.lookupTable = "users"]
         college == CollegeOfUser(gate.payload.id) IN
     gate' =
       IF fails
         THEN Respond(g, HTTP_STATUS.INTERNAL_SERVER_ERROR, ERROR_MESSAGES.SERVER_ERROR)
       ELSE IF ~college.found
         THEN Respond([g EXCEPT !.client = "released"],
                      HTTP_STATUS.UNAUTHORIZED, ERROR_MESSAGES.INVALID_TOKEN)
       ELSE [g EXCEPT !.pc = "tenantQuery", !.college = college]
  /\ UNCHANGED <<poolVars, calls, last, colleges, tenants, users, students, tx, extVars>>

\* SELECT tenant_id, tenant_name, db_url, status FROM tenants WHERE tenant_id = $1
TenantById(id) ==
  IF id \in DOMAIN tenants
    THEN [found |-> TRUE, tenant_id |-> id, tenant_name |-> tenants[id].tenant_name,
          db_url |-> tenants[id].db_url, status |-> tenants[id].status]
    ELSE NoTenant

(***************************************************************************)
(* The tenant query, client.release(), and the synchronous call of         *)
(* getPoolForTenant that follows it, up to the await of tenantPool.query.  *)
(***************************************************************************)
GateTenantQuery(fails, ctorThrows) ==
  /\ gate.pc = "tenantQuery"
  /\ Len(built) < MaxBuilt
  /\ LET tenant == TenantById(gate.college.tenant_id)
         r == getPoolForTenant([tenant_id |-> tenant.tenant_id,
                                tenant_name |-> tenant.tenant_name,
                                db_url |-> tenant.db_url], ctorThrows)
     IN
       IF fails
         THEN /\ gate' = Respond(gate, HTTP_STATUS.INTERNAL_SERVER_ERROR,
                                 ERROR_MESSAGES.SERVER_ERROR)
              /\ UNCHANGED poolVars
       ELSE IF ~tenant.found
         THEN /\ gate' = Respond([gate EXCEPT !.client = "released"],
                                 HTTP_STATUS.UNAUTHORIZED, ERROR_MESSAGES.INVALID_TOKEN)
              /\ UNCHANGED poolVars
       ELSE
         /\ tenantPools' = r.pools
         /\ tenantMetadata' = r.meta
         /\ built' = r.built
         /\ gate' =
              LET g == [gate EXCEPT !.tenant = tenant, !.client = "released"] IN
              IF r.thrown # NoError
                THEN Respond(g, HTTP_STATUS.INTERNAL_SERVER_ERROR,
                             ERROR_MESSAGES.SERVER_ERROR)
                ELSE [g EXCEPT !.pc = "userQuery", !.tenantPool = r.ret]
  /\ UNCHANGED <<calls, last, colleges, tenants, users, students, tx, extVars>>

\* The database a pool is connected to.
PoolDb(pool) == IF pool = MainPool THEN "main" ELSE built[pool]

\* SELECT user_id, user_status, college_id FROM users
RowAssumed(row) ==
  [found |-> TRUE, user_status |-> row.user_status, college_id |-> row.college_id]
SelectUser(row) ==
  [found |-> row.found, user_status |-> row.user_status, college_id |-> row.college_id]

\* dbUser.user_status !== STATUS.ACTIVE
NotInactive(dbUser) == dbUser.user_status # STATUS.INACTIVE
UserIsActive(dbUser) == dbUser.user_status = STATUS.ACTIVE

(***************************************************************************)
(* SELECT user_id, user_status, college_id FROM users WHERE user_id = $1   *)
(* on the tenant pool, then everything up to the response or next().       *)
(***************************************************************************)
GateUserQuery(fails) ==
  /\ gate.pc = "userQuery"
  /\ LET g == [gate EXCEPT !.lookupTable = "users"]
         dbUser == SelectUser(users[PoolDb(gate.tenantPool)][gate.payload.id]) IN
     gate' =
       IF fails
         THEN Respond(g, HTTP_STATUS.INTERNAL_SERVER_ERROR, ERROR_MESSAGES.SERVER_ERROR)
       ELSE IF ~dbUser.found
         THEN Respond(g, HTTP_STATUS.UNAUTHORIZED, ERROR_MESSAGES.INVALID_TOKEN)
       ELSE IF ~UserIsActive(dbUser)
         THEN Respond([g EXCEPT !.dbUser = dbUser, !.trace = Append(@, "IdentityLoaded")],
                      HTTP_STATUS.UNAUTHORIZED, "User account is not active")
       ELSE IsolateAndAttach([g EXCEPT !.dbUser = dbUser,
                                       !.trace = @ \o <<"IdentityLoaded", "StatusChecked">>],
                             [g.payload EXCEPT !.college_id = dbUser.college_id,
                                               !.tenant_id = g.tenant.tenant_id])
  /\ UNCHANGED <<poolVars, calls, last, colleges, tenants, users, students, tx, extVars>>

\* Where the subjects of a role are stored: students sign in against the
\* students table, every college user against the users table.
TableStoring(role) == IF role = ROLES.STUDENT THEN "students" ELSE "users"

\* The next request arrives.
GateNextRequest ==
  /\ gate.pc = "done"
  /\ gate' = IdleGate
  /\ UNCHANGED <<poolVars, calls, last, colleges, tenants, users, students, tx, extVars>>

(***************************************************************************)
(* requireRole(...allowedRoles)(req, res, next).  It reads req.user and     *)
(* writes nothing to the request; it contains no await.                    *)
(***************************************************************************)
requireRoleAnyRole(allowedRoles, user) ==
  IF ~user.attached
    THEN [pc |-> "done", allowedRoles |-> allowedRoles, nextCalled |-> FALSE,
          status |-> HTTP_STATUS.UNAUTHORIZED, message |-> ERROR_MESSAGES.UNAUTHORIZED]
    ELSE [pc |-> "done", allowedRoles |-> allowedRoles, nextCalled |-> TRUE,
          status |-> 0, message |-> ""]

requireRole(allowedRoles, user) ==
  IF ~user.attached
    THEN [pc |-> "done", allowedRoles |-> allowedRoles, nextCalled |-> FALSE,
          status |-> HTTP_STATUS.UNAUTHORIZED, message |-> ERROR_MESSAGES.UNAUTHORIZED]
  ELSE IF user.role \notin allowedRoles
    THEN [pc |-> "done", allowedRoles |-> allowedRoles, nextCalled |-> FALSE,
          status |-> HTTP_STATUS.FORBIDDEN, message |-> ERROR_MESSAGES.FORBIDDEN]
  ELSE [pc |-> "done", allowedRoles |-> allowedRoles, nextCalled |-> TRUE,
        status |-> 0, message |-> ""]

\* The role lists the routes pass: requireRole(ROLES.SYSADMIN),
\* requireRole(ROLES.ADMIN), requireRole(ROLES.ADMIN, ROLES.TEACHER).
AllowedRoleLists == {{ROLES.SYSADMIN}, {ROLES.ADMIN}, {ROLES.ADMIN, ROLES.TEACHER}}

\* router.<verb>(path, authMiddleware, requireRole(...), handler): the role
\* check runs when authMiddleware has called next().
RequireRoleAfterGate(allowedRoles) ==
  /\ gate.pc = "done"
  /\ gate.nextCalled
  /\ gate.rbac.pc = "idle"
  /\ gate' = [gate EXCEPT !.rbac = requireRole(allowedRoles, gate.user)]
  /\ UNCHANGED <<poolVars, calls, last, colleges, tenants, users, students, tx, extVars>>

\* requireRole mounted on a route without authMiddleware before it.
RequireRoleAlone(allowedRoles) ==
  /\ gate.pc = "idle"
  /\ gate' = [gate EXCEPT !.pc = "done", !.rbac = requireRole(allowedRoles, gate.user)]
  /\ UNCHANGED <<poolVars, calls, last, colleges, tenants, users, students, tx, extVars>>

(***************************************************************************)
(* Tenant resolver (middleware/requestLogger.js).  A Host header is the    *)
(* sequence of its dot-separated labels and its port suffix ("" when the   *)
(* header has none); the empty string is the one empty label.              *)
(***************************************************************************)
HostStr(labels, port) == [kind |-> "string", labels |-> labels, port |-> port]
UndefHost == [kind |-> "undefined", labels |-> <<"">>, port |-> ""]

\* String.prototype.toLowerCase / SQL LOWER over the labels that occur.
KeepCase(label) == label
toLowerCase(label) ==
  CASE label = "Alpha" -> "alpha"
    [] label = "BETA" -> "beta"
    [] label = "Admin" -> "admin"
    [] label = "API" -> "api"
    [] label = "PCRM" -> "pcrm"
    [] OTHER -> label

systemPrefixes == {"admin", "www", "api", "app", "mail", "ftp"}

\* host.split(':')[0].toLowerCase().split('.')
HostnameParts(host) == [n \in 1..Len(host.labels) |-> toLowerCase(host.labels[n])]

getSubdomainFromHost(host) ==
  IF host.kind # "string" \/ (host.labels = <<"">> /\ host.port = "") THEN Null
  ELSE LET parts == HostnameParts(host) IN
    IF parts = <<"localhost">> \/ parts = <<"127", "0", "0", "1">> THEN Null
    ELSE IF Len(parts) < 2 THEN Null
    ELSE IF parts[1] \in systemPrefixes THEN parts[2]
    ELSE parts[1]

TenantLabels == {"alpha", "Alpha", "beta", "ghost", "api"}
PrefixLabels == {"admin", "Admin", "API"}
Domains == {<<"pcrm", "in">>, <<"PCRM", "in">>, <<"localhost">>}
Ports == {"", "3000"}
Hosts ==
  {UndefHost, HostStr(<<"">>, ""), HostStr(<<"">>, "3000"), HostStr(<<"localhost">>, "3000"),
   HostStr(<<"127", "0", "0", "1">>, ""), HostStr(<<"www", "pcrm", "in">>, "")}
  \cup {HostStr(<<t>> \o d, port) : t \in TenantLabels, d \in Domains, port \in Ports}
  \cup {HostStr(<<p, t>> \o d, port) :
          p \in PrefixLabels, t \in TenantLabels, d \in Domains, port \in Ports}

IdleReq ==
  [pc |-> "idle", host |-> UndefHost, subdomain |-> Null, tenant |-> NoTenantCtx,
   isTenantPortal |-> FALSE, requestedSubdomain |-> Null, dbError |-> FALSE,
   responded |-> FALSE, nextCalled |-> FALSE]

\* SELECT ... FROM colleges WHERE LOWER(college_subdomain) = LOWER($1)
\* AND college_status = 'active' LIMIT 1
ActiveCollegesBySubdomain(subdomain) ==
  {c \in DOMAIN colleges :
     /\ toLowerCase(colleges[c].college_subdomain) = toLowerCase(subdomain)
     /\ colleges[c].college_status = STATUS.ACTIVE}

\* tenantResolver up to `await mainPool.query(...)`.
ResolverBegin(host) ==
  /\ req.pc = "idle"
  /\ LET subdomain == getSubdomainFromHost(host)
         r == [req EXCEPT !.host = host, !.subdomain = subdomain] IN
     req' = IF ~Truthy(subdomain)
              THEN [r EXCEPT !.pc = "done", !.tenant = NoTenantCtx,
                             !.isTenantPortal = FALSE, !.nextCalled = TRUE]
              ELSE [r EXCEPT !.pc = "query"]
  /\ UNCHANGED <<poolVars, calls, last, colleges, tenants, users, gate, students, tx,
                 closing, svc, now>>

\* catch (err) of the lookup: log, req.tenant = null, next().
FailRequest(r) == [r EXCEPT !.pc = "done", !.dbError = TRUE, !.responded = TRUE]
OnLookupError(r) ==
  [r EXCEPT !.pc = "done", !.dbError = TRUE, !.tenant = NoTenantCtx,
            !.isTenantPortal = TRUE, !.requestedSubdomain = r.subdomain,
            !.nextCalled = TRUE]

\* The college lookup settles: with an error, with no row, or with a row.
ResolverQuery(fails, c) ==
  /\ req.pc = "query"
  /\ LET rows == ActiveCollegesBySubdomain(req.subdomain) IN
     /\ rows # {} => c \in rows
     /\ req' =
          IF fails THEN OnLookupError(req)
          ELSE IF rows = {}
            THEN [req EXCEPT !.pc = "done", !.tenant = NoTenantCtx, !.isTenantPortal = TRUE,
                             !.requestedSubdomain = req.subdomain, !.nextCalled = TRUE]
          ELSE [req EXCEPT !.pc = "done", !.isTenantPortal = TRUE, !.nextCalled = TRUE,
                           !.tenant = [resolved |-> TRUE, college_id |-> c]]
  /\ UNCHANGED <<poolVars, calls, last, colleges, tenants, users, gate, students, tx,
                 closing, svc, now>>

\* The next request arrives.
ResolverNextRequest ==
  /\ req.pc = "done"
  /\ req' = IdleReq
  /\ UNCHANGED <<poolVars, calls, last, colleges, tenants, users, gate, students, tx,
                 closing, svc, now>>

(***************************************************************************)
(* Committed effects of the services on the main database, as the gate     *)
(* observes them between its awaits.                                        *)
(***************************************************************************)
\* UserService.delete: UPDATE users SET user_status = 'inactive'
\* WHERE user_id = $2 AND college_id = $3
UserServiceDelete(userId, collegeId) ==
  /\ users["main"][userId].found
  /\ users["main"][userId].college_id = collegeId
  /\ users' = [users EXCEPT !["main"][userId].user_status = "inactive"]
  /\ UNCHANGED <<poolVars, calls, last, colleges, tenants, gate, students, tx, extVars>>

\* UserService.update: user_role = COALESCE($2, user_role),
\* user_status = COALESCE($3, user_status)
UserServiceUpdate(userId, collegeId, role, status) ==
  /\ users["main"][userId].found
  /\ users["main"][userId].college_id = collegeId
  /\ users' = [users EXCEPT !["main"][userId].user_role = role,
                            !["main"][userId].user_status = status]
  /\ UNCHANGED <<poolVars, calls, last, colleges, tenants, gate, students, tx, extVars>>

\* CollegeService.update: college_status = COALESCE($3, college_status)
CollegeServiceUpdateStatus(collegeId, status) ==
  /\ collegeId \in DOMAIN colleges
  /\ colleges' = [colleges EXCEPT ![collegeId].college_status = status]
  /\ UNCHANGED <<poolVars, calls, last, tenants, users, gate, students, tx, extVars>>

\* TenantService.update: status = COALESCE($3, status)
TenantServiceUpdateStatus(tenantId, status) ==
  /\ tenantId \in DOMAIN tenants
  /\ tenants' = [tenants EXCEPT ![tenantId].status = status]
  /\ UNCHANGED <<poolVars, calls, last, colleges, users, gate, students, tx, extVars>>

(***************************************************************************)
(* Transactional write protocol.  The database is PostgreSQL at the        *)
(* SERIALIZABLE level: a transaction reads the snapshot taken by its first *)
(* query; a unique index is checked against the latest rows, waiting for   *)
(* an uncommitted conflicting writer; a transaction that a concurrent      *)
(* committed one makes non-serializable fails with serialization_failure.  *)
(***************************************************************************)
TxIds == 1..NumTx

DB_ERROR_CODES == [UNIQUE_VIOLATION |-> "23505", FOREIGN_KEY_VIOLATION |-> "23503"]
SERIALIZATION_FAILURE == "40001"
\* statement_timeout: DB.QUERY_TIMEOUT expired, the server cancels the statement
QUERY_CANCELED == "57014"

Emails == {"a@x", "A@x"}
Lower(e) == IF e = "A@x" THEN "a@x" ELSE e
Subdomains == {"alpha", "beta"}

NoErr == [code |-> "", message |-> ""]
JsError(message) == [code |-> "", message |-> message]
PgError(code) ==
  [code |-> code,
   message |-> IF code = DB_ERROR_CODES.UNIQUE_VIOLATION
                 THEN "duplicate key value violates unique constraint"
               ELSE IF code = SERIALIZATION_FAILURE
                 THEN "could not serialize access due to read/write dependencies among transactions"
               ELSE IF code = QUERY_CANCELED
                 THEN "canceling statement due to statement timeout"
               ELSE "database error"]

\* String.prototype.includes over the messages that occur.
MessageIncludes(message, part) ==
  CASE part = "already exists" ->
         message \in {"Email already exists", "College subdomain already exists"}
    [] part = "not found" -> message \in {"College not found", "Student not found"}
    [] part = "inactive" -> message \in {"College is inactive"}
    [] OTHER -> FALSE

NoSnap == [taken |-> FALSE, students |-> {}, colleges |-> [c \in {} |-> 0]]
NoWrite == [kind |-> "none", college_id |-> "", student_email |-> "",
            college_subdomain |-> "", college_status |-> ""]

IdleTx ==
  [pc |-> "idle", op |-> "", college_id |-> "", student_email |-> "",
   college_subdomain |-> Null, college_status |-> Null,
   snap |-> NoSnap, write |-> NoWrite, client |-> "none",
   dbErr |-> NoErr, rolledBack |-> FALSE, committed |-> FALSE,
   thrown |-> NoErr, http |-> 0]

Snapshot == [taken |-> TRUE, students |-> students, colleges |-> colleges]

\* Another transaction holds an uncommitted row with the same unique key.
WaitsForStudentKey(i, email) ==
  \E j \in TxIds \ {i} :
    /\ tx[j].write.kind = "student"
    /\ tx[j].write.student_email = email
WaitsForCollege(i, collegeId, subdomain) ==
  \E j \in TxIds \ {i} :
    /\ tx[j].write.kind = "college"
    /\ \/ tx[j].write.college_id = collegeId
       \/ tx[j].write.college_subdomain = subdomain

(***************************************************************************)
(* StudentService.registerStudent: catch / finally, and the controller's   *)
(* translation of the outcome into a response.                              *)
(***************************************************************************)
RegisterTranslate(err) ==
  IF err.code = DB_ERROR_CODES.UNIQUE_VIOLATION THEN JsError("Email already exists")
  ELSE IF err.code = DB_ERROR_CODES.FOREIGN_KEY_VIOLATION
    THEN JsError("Invalid college reference")
  ELSE err

RegisterResponse(thrown) ==
  IF thrown = NoErr THEN HTTP_STATUS.CREATED
  ELSE IF MessageIncludes(thrown.message, "already exists") THEN HTTP_STATUS.CONFLICT
  ELSE IF MessageIncludes(thrown.message, "not found")
          \/ MessageIncludes(thrown.message, "inactive") THEN HTTP_STATUS.BAD_REQUEST
  ELSE IF MessageIncludes(thrown.message, "Access denied") THEN HTTP_STATUS.FORBIDDEN
  ELSE HTTP_STATUS.INTERNAL_SERVER_ERROR

\* catch (err) { ROLLBACK; translate; throw } finally { client.release() }
RegisterFail(t, err) ==
  [t EXCEPT !.pc = "done", !.write = NoWrite, !.rolledBack = TRUE, !.client = "released",
            !.dbErr = IF err.code # "" THEN err ELSE NoErr,
            !.thrown = RegisterTranslate(err),
            !.http = RegisterResponse(RegisterTranslate(err))]

\* mainPool.connect(); BEGIN ISOLATION LEVEL SERIALIZABLE
RegisterStart(i, collegeId, email) ==
  /\ tx[i].pc = "idle"
  /\ tx' = [tx EXCEPT ![i] = [IdleTx EXCEPT !.pc = "collegeQuery", !.op = "registerStudent",
                                           !.college_id = collegeId, !.student_email = email,
                                           !.client = "leased"]]
  /\ UNCHANGED <<poolVars, calls, last, colleges, tenants, users, gate, students, extVars>>

\* Step 1: verify college exists and is active (first query: takes the snapshot)
RegisterCollegeQuery(i) ==
  /\ tx[i].pc = "collegeQuery"
  /\ LET t == [tx[i] EXCEPT !.snap = Snapshot] IN
     tx' = [tx EXCEPT ![i] =
       IF t.college_id \notin DOMAIN colleges
         THEN RegisterFail(t, JsError("College not found"))
       ELSE IF colleges[t.college_id].college_status # STATUS.ACTIVE
         THEN RegisterFail(t, JsError("College is inactive"))
       ELSE [t EXCEPT !.pc = "emailCheck"]]
  /\ UNCHANGED <<poolVars, calls, last, colleges, tenants, users, gate, students, extVars>>

\* Steps 2-3: hash the password; SELECT ... WHERE LOWER(student_email) = LOWER($1)
\* AND college_id = $2
EmailTaken(rows, email, collegeId) ==
  \E row \in rows : Lower(row.student_email) = Lower(email) /\ row.college_id = collegeId

RegisterEmailCheck(i) ==
  /\ tx[i].pc = "emailCheck"
  /\ tx' = [tx EXCEPT ![i] =
       IF EmailTaken(tx[i].snap.students, tx[i].student_email, tx[i].college_id)
         THEN RegisterFail(tx[i], JsError("Email already exists"))
         ELSE [tx[i] EXCEPT !.pc = "insert"]]
  /\ UNCHANGED <<poolVars, calls, last, colleges, tenants, users, gate, students, extVars>>

\* Step 4: INSERT INTO students.  students.student_email is unique.
RegisterInsert(i, code) ==
  /\ tx[i].pc = "insert"
  /\ ~WaitsForStudentKey(i, tx[i].student_email)
  /\ LET t == tx[i]
         dupVisible == \E row \in t.snap.students : row.student_email = t.student_email
         dupNow == \E row \in students : row.student_email = t.student_email
     IN
       /\ code \in {QUERY_CANCELED} \cup
                   (IF dupVisible THEN {DB_ERROR_CODES.UNIQUE_VIOLATION}
                    ELSE IF dupNow THEN {DB_ERROR_CODES.UNIQUE_VIOLATION, SERIALIZATION_FAILURE}
                    ELSE {""})
       /\ tx' = [tx EXCEPT ![i] =
            IF code # "" THEN RegisterFail(t, PgError(code))
            ELSE [t EXCEPT !.pc = "commit",
                           !.write = [NoWrite EXCEPT !.kind = "student",
                                                     !.college_id = t.college_id,
                                                     !.student_email = t.student_email]]]
  /\ UNCHANGED <<poolVars, calls, last, colleges, tenants, users, gate, students, extVars>>

\* COMMIT.  A row committed since the snapshot that the email check would
\* have matched makes this transaction non-serializable.
RegisterCommit(i) ==
  /\ tx[i].pc = "commit"
  /\ LET t == tx[i] IN
     IF EmailTaken(students \ t.snap.students, t.student_email, t.college_id)
       THEN /\ tx' = [tx EXCEPT ![i] = RegisterFail(t, PgError(SERIALIZATION_FAILURE))]
            /\ UNCHANGED students
       ELSE /\ students' = students \cup
                 {[college_id |-> t.college_id, student_email |-> t.student_email]}
            /\ tx' = [tx EXCEPT ![i] =
                 [t EXCEPT !.pc = "done", !.write = NoWrite, !.committed = TRUE,
                           !.client = "released", !.http = RegisterResponse(NoErr)]]
  /\ UNCHANGED <<poolVars, calls, last, colleges, tenants, users, gate, extVars>>

(***************************************************************************)
(* CollegeService.update and the controller updateCollege.                 *)
(***************************************************************************)
UpdateCollegeResponse(thrown) ==
  IF thrown = NoErr THEN HTTP_STATUS.OK
  ELSE IF MessageIncludes(thrown.message, "not found") THEN HTTP_STATUS.NOT_FOUND
  ELSE HTTP_STATUS.INTERNAL_SERVER_ERROR

\* catch (err) { await ROLLBACK; throw err } finally { client.release() }
CollegeUpdateFail(t, err) ==
  [t EXCEPT !.pc = "done", !.write = NoWrite, !.rolledBack = TRUE, !.client = "released",
            !.dbErr = IF err.code # "" THEN err ELSE NoErr,
            !.thrown = err,
            !.http = UpdateCollegeResponse(err)]

CollegeUpdateStart(i, collegeId, subdomain, status) ==
  /\ tx[i].pc = "idle"
  /\ tx' = [tx EXCEPT ![i] = [IdleTx EXCEPT !.pc = "updCheck", !.op = "collegeUpdate",
                                           !.college_id = collegeId,
                                           !.college_subdomain = subdomain,
                                           !.college_status = status,
                                           !.client = "leased"]]
  /\ UNCHANGED <<poolVars, calls, last, colleges, tenants, users, gate, students, extVars>>

\* Verify college exists
CollegeUpdateCheck(i) ==
  /\ tx[i].pc = "updCheck"
  /\ LET t == [tx[i] EXCEPT !.snap = Snapshot] IN
     tx' = [tx EXCEPT ![i] =
       IF t.college_id \notin DOMAIN colleges
         THEN CollegeUpdateFail(t, JsError("College not found"))
         ELSE [t EXCEPT !.pc = "updWrite"]]
  /\ UNCHANGED <<poolVars, calls, last, colleges, tenants, users, gate, students, extVars>>

Coalesce(v, old) == IF v = Null THEN old ELSE v

\* UPDATE colleges SET college_subdomain = COALESCE($2, college_subdomain),
\* college_status = COALESCE($3, college_status) WHERE college_id = $4
CollegeUpdateWrite(i) ==
  /\ tx[i].pc = "updWrite"
  /\ LET t == tx[i]
         old == colleges[t.college_id]
         subdomain == Coalesce(t.college_subdomain, old.college_subdomain)
         status == Coalesce(t.college_status, old.college_status)
     IN
       /\ ~WaitsForCollege(i, t.college_id, subdomain)
       /\ tx' = [tx EXCEPT ![i] =
            IF old # t.snap.colleges[t.college_id]
              THEN CollegeUpdateFail(t, PgError(SERIALIZATION_FAILURE))
            ELSE IF \E c \in DOMAIN colleges \ {t.college_id} :
                      colleges[c].college_subdomain = subdomain
              THEN CollegeUpdateFail(t, PgError(DB_ERROR_CODES.UNIQUE_VIOLATION))
            ELSE [t EXCEPT !.pc = "updCommit",
                           !.write = [NoWrite EXCEPT !.kind = "college",
                                                     !.college_id = t.college_id,
                                                     !.college_subdomain = subdomain,
                                                     !.college_status = status]]]
  /\ UNCHANGED <<poolVars, calls, last, colleges, tenants, users, gate, students, extVars>>

CollegeUpdateCommit(i) ==
  /\ tx[i].pc = "updCommit"
  /\ LET t == tx[i] IN
     /\ colleges' = [colleges EXCEPT
          ![t.college_id].college_subdomain = t.write.college_subdomain,
          ![t.college_id].college_status = t.write.college_status]
     /\ tx' = [tx EXCEPT ![i] =
          [t EXCEPT !.pc = "done", !.write = NoWrite, !.committed = TRUE,
                    !.client = "released", !.http = UpdateCollegeResponse(NoErr)]]
  /\ UNCHANGED <<poolVars, calls, last, tenants, users, gate, students, extVars>>

(***************************************************************************)
(* Service calls that run several statements on one leased connection:    *)
(* CollegeService.create and UserService.delete.  A connection carries at  *)
(* most one open transaction; statements sent while it is open take        *)
(* effect at COMMIT, statements sent outside a transaction take effect at   *)
(* once.                                                                    *)
(***************************************************************************)
SvcIds == 1..NumSvc

CONNECTION_FAILURE == "08006"

NoSvcErr == [code |-> "", message |-> "", constraint |-> ""]
SvcJsError(message) == [code |-> "", message |-> message, constraint |-> ""]
SvcPgError(code, constraint) ==
  [code |-> code, message |-> "database error", constraint |-> constraint]
RELEASED_TWICE ==
  SvcJsError("Release called on client which has already been released to the pool.")

IdleSvc ==
  [pc |-> "idle", op |-> "", version |-> "", college_id |-> "", user_id |-> "",
   college_subdomain |-> "", admin_email |-> "", user_email |-> "", user_role |-> "",
   client |-> "none", releases |-> 0,
   txOpen |-> FALSE, pending |-> <<>>, err |-> NoSvcErr, thrown |-> NoSvcErr,
   committed |-> FALSE, returned |-> FALSE, db |-> "main", sawStatus |-> "",
   held |-> 0,               \* connections leased by this call and not yet released
   usedReleased |-> FALSE,   \* a statement was issued on a client already released
   releasedOpen |-> FALSE,   \* a client was released with its transaction open
   log |-> <<>>]             \* connect / BEGIN / COMMIT / ROLLBACK / release, in order

Db == [colleges |-> colleges, users |-> users]

\* The effect of one INSERT / UPDATE on the stored tables.
ApplyWrite(db, w) ==
  IF w.table = "colleges"
    THEN [db EXCEPT !.colleges = (w.id :> w.row) @@ @]
    ELSE [db EXCEPT !.users[w.db] = (w.id :> w.row) @@ @]

RECURSIVE ApplyAll(_, _)
ApplyAll(db, ws) ==
  IF ws = <<>> THEN db ELSE ApplyAll(ApplyWrite(db, Head(ws)), Tail(ws))

\* client = await pool.connect(): the variable `client` now names a newly
\* leased connection; a connection it named before stays as it was.
Connect(s) ==
  [s EXCEPT !.client = "leased", !.releases = 0, !.held = @ + 1,
            !.log = Append(@, "connect")]

\* client.query('BEGIN ISOLATION LEVEL SERIALIZABLE')
BeginIgnored(s) == s
Begin(s) ==
  [s EXCEPT !.txOpen = TRUE, !.log = Append(@, "BEGIN"),
            !.usedReleased = @ \/ s.client # "leased"]

\* client.query(INSERT / UPDATE ...)
ExecWrite(s, w) ==
  LET t == [s EXCEPT !.usedReleased = @ \/ s.client # "leased"] IN
  IF s.txOpen THEN [svc |-> [t EXCEPT !.pending = Append(@, w)], db |-> Db]
              ELSE [svc |-> t, db |-> ApplyWrite(Db, w)]

\* client.query('COMMIT')
Commit(s) ==
  [svc |-> [s EXCEPT !.txOpen = FALSE, !.pending = <<>>, !.committed = TRUE,
                     !.log = Append(@, "COMMIT"),
                     !.usedReleased = @ \/ s.client # "leased"],
   db |-> ApplyAll(Db, s.pending)]

\* client.query('COMMIT') rejects: the server has ended the transaction.
CommitFailed(s) ==
  [s EXCEPT !.txOpen = FALSE, !.pending = <<>>, !.log = Append(@, "COMMIT"),
            !.usedReleased = @ \/ s.client # "leased"]

\* client.query('ROLLBACK')
RollbackSkipped(s) == s
Rollback(s) ==
  [s EXCEPT !.txOpen = FALSE, !.pending = <<>>, !.log = Append(@, "ROLLBACK"),
            !.usedReleased = @ \/ s.client # "leased"]

\* client.query('ROLLBACK') rejects: the transaction is left as it was.
RollbackFailed(s) ==
  [s EXCEPT !.log = Append(@, "ROLLBACK failed"),
            !.usedReleased = @ \/ s.client # "leased"]

\* client.release().  A second release of the same client throws.  The
\* server aborts what a connection had open when it is reset or dropped.
Release(s) ==
  [s EXCEPT !.client = "released", !.releases = @ + 1,
            !.held = IF s.client = "leased" THEN @ - 1 ELSE @,
            !.releasedOpen = @ \/ (s.client = "leased" /\ s.txOpen),
            !.txOpen = FALSE, !.pending = <<>>,
            !.log = Append(@, "release")]

\* An error reaches the catch block of the service method.
ToCatch(s, pc, err) == [s EXCEPT !.pc = pc, !.err = err]

\* The uncommitted writes held by the other connections: a write of the same
\* row or unique key waits for them.
OthersPending(i) ==
  UNION {{svc[j].pending[n] : n \in 1..Len(svc[j].pending)} : j \in SvcIds \ {i}}

SvcFrame == <<poolVars, calls, last, tenants, gate, students, tx, closing, req, now>>

(***************************************************************************)
(* CollegeService.create(data)                                             *)
(***************************************************************************)
NewCollegeId(i) == IF i = 1 THEN "cN1" ELSE IF i = 2 THEN "cN2" ELSE "cN3"
NewUserId(i) == IF i = 1 THEN "adm1" ELSE IF i = 2 THEN "adm2" ELSE "adm3"
NewSubdomains == {"alpha", "gamma"}
AdminEmails == {"adm@x", "u1@x"}

\* Emails held by the rows of users (main database).
UserEmails ==
  {"u1@x"} \cup {users["main"][id].user_email :
                   id \in {a \in DOMAIN users["main"] : \E j \in SvcIds : a = NewUserId(j)}}

\* catch (err): translation of a unique violation by the constraint's name.
CreateTranslate(err) ==
  IF err.code = DB_ERROR_CODES.UNIQUE_VIOLATION /\ err.constraint = "colleges_college_subdomain_key"
    THEN SvcJsError("College subdomain already exists")
  ELSE IF err.code = DB_ERROR_CODES.UNIQUE_VIOLATION /\ err.constraint = "users_user_email_key"
    THEN SvcJsError("Admin email already exists")
  ELSE err

\* const client = await mainPool.connect()   (before the try)
CollegeCreateStart(i, subdomain, email, fails) ==
  /\ svc[i].pc = "idle"
  /\ svc' = [svc EXCEPT ![i] =
       LET s == [IdleSvc EXCEPT !.op = "collegeCreate", !.college_subdomain = subdomain,
                                !.admin_email = email] IN
       IF fails THEN [s EXCEPT !.pc = "done", !.thrown = SvcPgError(CONNECTION_FAILURE, "")]
                ELSE [Connect(s) EXCEPT !.pc = "cBegin"]]
  /\ UNCHANGED <<SvcFrame, colleges, users>>

CollegeCreateBegin(i, fault) ==
  /\ svc[i].pc = "cBegin"
  /\ svc' = [svc EXCEPT ![i] =
       IF fault # "" THEN ToCatch(svc[i], "cCatch", SvcPgError(fault, ""))
                     ELSE [Begin(svc[i]) EXCEPT !.pc = "cCheck"]]
  /\ UNCHANGED <<SvcFrame, colleges, users>>

\* Step 1: SELECT college_id FROM colleges WHERE LOWER(college_subdomain) = LOWER($1)
CollegeCreateSubdomainCheck(i, fault) ==
  /\ svc[i].pc = "cCheck"
  /\ LET s == svc[i]
         rows == {c \in DOMAIN colleges :
                    toLowerCase(colleges[c].college_subdomain) = toLowerCase(s.college_subdomain)}
     IN svc' = [svc EXCEPT ![i] =
          IF fault # "" THEN ToCatch(s, "cCatch", SvcPgError(fault, ""))
          ELSE IF rows # {}
            THEN ToCatch(Rollback(s), "cCatch", SvcJsError("College subdomain already exists"))
          ELSE [s EXCEPT !.pc = "cInsertCollege"]]
  /\ UNCHANGED <<SvcFrame, colleges, users>>

\* Step 2: INSERT INTO colleges ... RETURNING college_id
CollegeCreateInsertCollege(i, fault) ==
  /\ svc[i].pc = "cInsertCollege"
  /\ LET s == svc[i]
         SameKey(w) == w.table = "colleges" /\ w.row.college_subdomain = s.college_subdomain
         dup == \E c \in DOMAIN colleges : colleges[c].college_subdomain = s.college_subdomain
         r == ExecWrite(s, [table |-> "colleges", db |-> "main", id |-> NewCollegeId(i),
                            row |-> [tenant_id |-> Null,
                                     college_subdomain |-> s.college_subdomain,
                                     college_status |-> STATUS.ACTIVE]])
     IN
       /\ ~(\E w \in OthersPending(i) : SameKey(w))
       /\ IF dup \/ fault # ""
            THEN /\ svc' = [svc EXCEPT ![i] = ToCatch(s, "cCatch",
                       IF dup THEN SvcPgError(DB_ERROR_CODES.UNIQUE_VIOLATION,
                                              "colleges_college_subdomain_key")
                              ELSE SvcPgError(fault, ""))]
                 /\ UNCHANGED <<colleges, users>>
            ELSE /\ svc' = [svc EXCEPT ![i] = [r.svc EXCEPT !.pc = "cHash",
                                                           !.college_id = NewCollegeId(i)]]
                 /\ colleges' = r.db.colleges
                 /\ users' = r.db.users
  /\ UNCHANGED SvcFrame

\* Step 3: await passwordHelper.hashPassword(admin_password)
CollegeCreateHash(i, fails) ==
  /\ svc[i].pc = "cHash"
  /\ svc' = [svc EXCEPT ![i] =
       IF fails THEN ToCatch(svc[i], "cCatch", SvcJsError("hash failed"))
                ELSE [svc[i] EXCEPT !.pc = "cInsertUser"]]
  /\ UNCHANGED <<SvcFrame, colleges, users>>

\* Step 4: INSERT INTO users (college_id, ..., user_role, user_status) ... 'admin', 'active'
CollegeCreateInsertUser(i, fault) ==
  /\ svc[i].pc = "cInsertUser"
  /\ LET s == svc[i]
         SameKey(w) == w.table = "users" /\ w.row.user_email = s.admin_email
         dup == s.admin_email \in UserEmails
         r == ExecWrite(s, [table |-> "users", db |-> "main", id |-> NewUserId(i),
                            row |-> [found |-> TRUE, user_status |-> STATUS.ACTIVE,
                                     user_role |-> ROLES.ADMIN, college_id |-> s.college_id,
                                     user_email |-> s.admin_email]])
     IN
       /\ ~(\E w \in OthersPending(i) : SameKey(w))
       /\ IF dup \/ fault # ""
            THEN /\ svc' = [svc EXCEPT ![i] = ToCatch(s, "cCatch",
                       IF dup THEN SvcPgError(DB_ERROR_CODES.UNIQUE_VIOLATION,
                                              "users_user_email_key")
                              ELSE SvcPgError(fault, ""))]
                 /\ UNCHANGED <<colleges, users>>
            ELSE /\ svc' = [svc EXCEPT ![i] = [r.svc EXCEPT !.pc = "cCommit"]]
                 /\ colleges' = r.db.colleges
                 /\ users' = r.db.users
  /\ UNCHANGED SvcFrame

\* Step 5: COMMIT; return { college, admin, ... }; finally { client.release() }
CollegeCreateCommit(i, fault) ==
  /\ svc[i].pc = "cCommit"
  /\ IF fault # ""
       THEN /\ svc' = [svc EXCEPT ![i] =
                 ToCatch(CommitFailed(svc[i]), "cCatch", SvcPgError(fault, ""))]
            /\ UNCHANGED <<colleges, users>>
       ELSE LET r == Commit(svc[i]) IN
            /\ svc' = [svc EXCEPT ![i] = [Release(r.svc) EXCEPT !.pc = "done",
                                                               !.returned = TRUE]]
            /\ colleges' = r.db.colleges
            /\ users' = r.db.users
  /\ UNCHANGED SvcFrame

\* catch (err) { await client.query('ROLLBACK'); translate; throw }
\* finally { client.release() }
CollegeCreateCatch(i, rollbackFails) ==
  /\ svc[i].pc = "cCatch"
  /\ svc' = [svc EXCEPT ![i] =
       IF rollbackFails
         THEN [Release(RollbackFailed(svc[i])) EXCEPT !.pc = "done",
                                      !.thrown = SvcPgError(CONNECTION_FAILURE, "")]
         ELSE [Release(Rollback(svc[i])) EXCEPT !.pc = "done",
                                                !.thrown = CreateTranslate(svc[i].err)]]
  /\ UNCHANGED <<SvcFrame, colleges, users>>

(***************************************************************************)
(* UserService.delete(userId, collegeId): the single-database version and  *)
(* the per-tenant version, which first looks the tenant up on the main     *)
(* database.                                                                *)
(***************************************************************************)
DeleteVersions == {"single", "tenant"}

\* const client = await mainPool.connect()   (before the try)
UserDeleteStart(i, version, userId, collegeId, fails) ==
  /\ svc[i].pc = "idle"
  /\ svc' = [svc EXCEPT ![i] =
       LET s == [IdleSvc EXCEPT !.op = "userDelete", !.version = version,
                                !.user_id = userId, !.college_id = collegeId] IN
       IF fails THEN [s EXCEPT !.pc = "done", !.thrown = SvcPgError(CONNECTION_FAILURE, "")]
       ELSE [Connect(s) EXCEPT
               !.pc = IF version = "single" THEN "dBegin" ELSE "dCollege"]]
  /\ UNCHANGED <<SvcFrame, colleges, users>>

\* Step 1 (per-tenant version): SELECT college_id, tenant_id FROM colleges
\* WHERE college_id = $1; no row: client.release(); throw
UserDeleteCollegeQuery(i, fault) ==
  /\ svc[i].pc = "dCollege"
  /\ svc' = [svc EXCEPT ![i] =
       IF fault # "" THEN ToCatch(svc[i], "dCatch", SvcPgError(fault, ""))
       ELSE IF svc[i].college_id \notin DOMAIN colleges
         THEN ToCatch(Release(svc[i]), "dCatch", SvcJsError("College not found"))
       ELSE [svc[i] EXCEPT !.pc = "dTenant"]]
  /\ UNCHANGED <<SvcFrame, colleges, users>>

\* Step 2: SELECT tenant_id, tenant_name, db_url FROM tenants WHERE tenant_id = $1;
\* const tenant = tenantResult.rows; client.release();
\* Step 3: getPoolForTenant({ tenant.tenant_id, tenant.tenant_name, tenant.db_url }),
\* where tenant is the array of rows, so each property is undefined.
UserDeleteTenantQuery(i, fault) ==
  /\ svc[i].pc = "dTenant"
  /\ LET s == svc[i]
         r == getPoolForTenant([tenant_id |-> Undef, tenant_name |-> Undef, db_url |-> Undef],
                               FALSE)
     IN svc' = [svc EXCEPT ![i] =
          IF fault # "" THEN ToCatch(s, "dCatch", SvcPgError(fault, ""))
          ELSE IF colleges[s.college_id].tenant_id \notin DOMAIN tenants
            THEN ToCatch(Release(s), "dCatch", SvcJsError("Tenant not found"))
          ELSE IF r.thrown # NoError
            THEN ToCatch(Release(s), "dCatch", SvcJsError(r.thrown.message))
          ELSE [Release(s) EXCEPT !.pc = "dConnect", !.db = PoolDb(r.ret)]]
  /\ UNCHANGED <<SvcFrame, colleges, users>>

\* client = await tenantPool.connect()
UserDeleteConnect(i, fails) ==
  /\ svc[i].pc = "dConnect"
  /\ svc' = [svc EXCEPT ![i] =
       IF fails THEN ToCatch(svc[i], "dCatch", SvcPgError(CONNECTION_FAILURE, ""))
                ELSE [Connect(svc[i]) EXCEPT !.pc = "dBegin"]]
  /\ UNCHANGED <<SvcFrame, colleges, users>>

UserDeleteBegin(i, fault) ==
  /\ svc[i].pc = "dBegin"
  /\ svc' = [svc EXCEPT ![i] =
       IF fault # "" THEN ToCatch(svc[i], "dCatch", SvcPgError(fault, ""))
                     ELSE [Begin(svc[i]) EXCEPT !.pc = "dUpdate"]]
  /\ UNCHANGED <<SvcFrame, colleges, users>>

\* SET user_status = $1, updated_at = NOW()
Removed(row, t) == [row EXCEPT !.found = FALSE]
SoftDeleted(row, t) == [row EXCEPT !.user_status = "inactive", !.updated_at = t]

\* UPDATE users SET user_status = 'inactive', updated_at = NOW()
\* WHERE user_id = $2 AND college_id = $3 RETURNING ...; no row: ROLLBACK; throw
UserDeleteUpdate(i, fault) ==
  /\ svc[i].pc = "dUpdate"
  /\ LET s == svc[i]
         row == users[s.db][s.user_id]
         SameRow(w) == w.table = "users" /\ w.db = s.db /\ w.id = s.user_id
         r == ExecWrite(s, [table |-> "users", db |-> s.db, id |-> s.user_id,
                            row |-> SoftDeleted(row, now)])
     IN
       /\ ~(\E w \in OthersPending(i) : SameRow(w))
       /\ IF fault # ""
            THEN /\ svc' = [svc EXCEPT ![i] = ToCatch(s, "dCatch", SvcPgError(fault, ""))]
                 /\ UNCHANGED <<colleges, users>>
          ELSE IF ~(row.found /\ row.college_id = s.college_id)
            THEN /\ svc' = [svc EXCEPT ![i] =
                      ToCatch(Rollback(s), "dCatch", SvcJsError("User not found"))]
                 /\ UNCHANGED <<colleges, users>>
          ELSE /\ svc' = [svc EXCEPT ![i] = [r.svc EXCEPT !.pc = "dCommit",
                                                         !.sawStatus = row.user_status]]
               /\ colleges' = r.db.colleges
               /\ users' = r.db.users
  /\ UNCHANGED SvcFrame

\* COMMIT; finally { client.release() }
UserDeleteCommit(i, fault) ==
  /\ svc[i].pc = "dCommit"
  /\ IF fault # ""
       THEN /\ svc' = [svc EXCEPT ![i] =
                 ToCatch(CommitFailed(svc[i]), "dCatch", SvcPgError(fault, ""))]
            /\ UNCHANGED <<colleges, users>>
       ELSE LET r == Commit(svc[i]) IN
            /\ svc' = [svc EXCEPT ![i] = [Release(r.svc) EXCEPT !.pc = "done",
                                                               !.returned = TRUE]]
            /\ colleges' = r.db.colleges
            /\ users' = r.db.users
  /\ UNCHANGED SvcFrame

\* catch (err) { try { ROLLBACK } catch { log }; throw err }
\* finally { client.release() }: releasing a client a second time throws,
\* and that error replaces the one being thrown.
UserDeleteCatch(i, rollbackFails) ==
  /\ svc[i].pc = "dCatch"
  /\ svc' = [svc EXCEPT ![i] =
       LET s == Release(IF rollbackFails THEN RollbackFailed(svc[i])
                                          ELSE Rollback(svc[i])) IN
       [s EXCEPT !.pc = "done",
                 !.thrown = IF s.releases > 1 THEN RELEASED_TWICE ELSE svc[i].err]]
  /\ UNCHANGED <<SvcFrame, colleges, users>>

(***************************************************************************)
(* UserService.create(data), the per-tenant version: it looks the college  *)
(* and the tenant up on a main-pool client, then runs the transaction on a *)
(* client of the tenant's pool.                                            *)
(***************************************************************************)
UserCreateColleges == CollegeIds \cup {"cX"}
UserCreateEmails == {"u1@x", "new@x"}
UserCreateRoles == {ROLES.TEACHER, ROLES.STUDENT}

\* const validRoles = [ROLES.ADMIN, ROLES.TEACHER, 'other']
validRoles == {ROLES.ADMIN, ROLES.TEACHER, "other"}

\* catch (err): 23505 and 23503 are translated, everything else rethrown.
UserCreateTranslate(err) ==
  IF err.code = DB_ERROR_CODES.UNIQUE_VIOLATION THEN SvcJsError("Email already exists")
  ELSE IF err.code = DB_ERROR_CODES.FOREIGN_KEY_VIOLATION
    THEN SvcJsError("Invalid college reference")
  ELSE err

\* let client = await mainPool.connect()   (before the try)
UserCreateStart(i, collegeId, email, role, fails) ==
  /\ svc[i].pc = "idle"
  /\ svc' = [svc EXCEPT ![i] =
       LET s == [IdleSvc EXCEPT !.op = "userCreate", !.college_id = collegeId,
                                !.user_email = email, !.user_role = role] IN
       IF fails THEN [s EXCEPT !.pc = "done", !.thrown = SvcPgError(CONNECTION_FAILURE, "")]
                ELSE [Connect(s) EXCEPT !.pc = "uCollege"]]
  /\ UNCHANGED <<SvcFrame, colleges, users>>

\* Step 1: SELECT college_id, tenant_id, college_status FROM colleges WHERE
\* college_id = $1; no row, or not active: client.release(); throw
UserCreateCollegeQuery(i, fault) ==
  /\ svc[i].pc = "uCollege"
  /\ svc' = [svc EXCEPT ![i] =
       LET s == svc[i] IN
       IF fault # "" THEN ToCatch(s, "uCatch", SvcPgError(fault, ""))
       ELSE IF s.college_id \notin DOMAIN colleges
         THEN ToCatch(Release(s), "uCatch", SvcJsError("College not found"))
       ELSE IF colleges[s.college_id].college_status # STATUS.ACTIVE
         THEN ToCatch(Release(s), "uCatch", SvcJsError("College is inactive"))
       ELSE [s EXCEPT !.pc = "uTenant"]]
  /\ UNCHANGED <<SvcFrame, colleges, users>>

\* Step 2: SELECT ... FROM tenants WHERE tenant_id = $1 AND status = $2; no
\* row: client.release(); throw.  const tenant = tenantResult.rows;
\* Step 3: getPoolForTenant({ tenant.tenant_id, tenant.tenant_name, tenant.db_url }),
\* where tenant is the array of rows, so each property is undefined.  The
\* main-pool client is not released here.
UserCreateTenantQuery(i, fault) ==
  /\ svc[i].pc = "uTenant"
  /\ LET s == svc[i]
         tenantId == colleges[s.college_id].tenant_id
         r == getPoolForTenant([tenant_id |-> Undef, tenant_name |-> Undef, db_url |-> Undef],
                               FALSE)
     IN svc' = [svc EXCEPT ![i] =
          IF fault # "" THEN ToCatch(s, "uCatch", SvcPgError(fault, ""))
          ELSE IF tenantId \notin DOMAIN tenants \/ tenants[tenantId].status # STATUS.ACTIVE
            THEN ToCatch(Release(s), "uCatch", SvcJsError("Tenant not found or inactive"))
          ELSE IF r.thrown # NoError
            THEN ToCatch(s, "uCatch", SvcJsError(r.thrown.message))
          ELSE [s EXCEPT !.pc = "uConnect", !.db = PoolDb(r.ret)]]
  /\ UNCHANGED <<SvcFrame, colleges, users>>

\* client = await tenantPool.connect()
UserCreateConnect(i, fails) ==
  /\ svc[i].pc = "uConnect"
  /\ svc' = [svc EXCEPT ![i] =
       IF fails THEN ToCatch(svc[i], "uCatch", SvcPgError(CONNECTION_FAILURE, ""))
                ELSE [Connect(svc[i]) EXCEPT !.pc = "uBegin"]]
  /\ UNCHANGED <<SvcFrame, colleges, users>>

\* BEGIN; Step 4: role not in validRoles: ROLLBACK; throw
UserCreateBegin(i, fault) ==
  /\ svc[i].pc = "uBegin"
  /\ svc' = [svc EXCEPT ![i] =
       IF fault # "" THEN ToCatch(svc[i], "uCatch", SvcPgError(fault, ""))
       ELSE IF svc[i].user_role \notin validRoles
         THEN ToCatch(Rollback(Begin(svc[i])), "uCatch", SvcJsError("Invalid user role"))
       ELSE [Begin(svc[i]) EXCEPT !.pc = "uHash"]]
  /\ UNCHANGED <<SvcFrame, colleges, users>>

\* Step 5: await passwordHelper.hashPassword(user_password)
UserCreateHash(i, fails) ==
  /\ svc[i].pc = "uHash"
  /\ svc' = [svc EXCEPT ![i] =
       IF fails THEN ToCatch(svc[i], "uCatch", SvcJsError("hash failed"))
                ELSE [svc[i] EXCEPT !.pc = "uEmail"]]
  /\ UNCHANGED <<SvcFrame, colleges, users>>

\* Step 6: SELECT user_id FROM users WHERE LOWER(user_email) = LOWER($1);
\* a row: ROLLBACK; throw
UserCreateEmailCheck(i, fault) ==
  /\ svc[i].pc = "uEmail"
  /\ svc' = [svc EXCEPT ![i] =
       LET s == svc[i] IN
       IF fault # "" THEN ToCatch(s, "uCatch", SvcPgError(fault, ""))
       ELSE IF s.user_email \in UserEmails
         THEN ToCatch(Rollback(s), "uCatch", SvcJsError("Email already exists"))
       ELSE [s EXCEPT !.pc = "uInsert"]]
  /\ UNCHANGED <<SvcFrame, colleges, users>>

\* Step 7: INSERT INTO users (...) VALUES (..., 'active', NOW()) RETURNING ...
UserCreateInsert(i, fault) ==
  /\ svc[i].pc = "uInsert"
  /\ LET s == svc[i]
         SameKey(w) == w.table = "users" /\ w.row.user_email = s.user_email
         dup == s.user_email \in UserEmails
         r == ExecWrite(s, [table |-> "users", db |-> s.db, id |-> NewUserId(i),
                            row |-> [found |-> TRUE, user_status |-> STATUS.ACTIVE,
                                     user_role |-> s.user_role, college_id |-> s.college_id,
                                     user_email |-> s.user_email]])
     IN
       /\ ~(\E w \in OthersPending(i) : SameKey(w))
       /\ IF dup \/ fault # ""
            THEN /\ svc' = [svc EXCEPT ![i] = ToCatch(s, "uCatch",
                       IF dup THEN SvcPgError(DB_ERROR_CODES.UNIQUE_VIOLATION,
                                              "users_user_email_key")
                              ELSE SvcPgError(fault, ""))]
                 /\ UNCHANGED <<colleges, users>>
            ELSE /\ svc' = [svc EXCEPT ![i] = [r.svc EXCEPT !.pc = "uCommit"]]
                 /\ colleges' = r.db.colleges
                 /\ users' = r.db.users
  /\ UNCHANGED SvcFrame

\* COMMIT; return user; finally { client.release() }
UserCreateCommit(i, fault) ==
  /\ svc[i].pc = "uCommit"
  /\ IF fault # ""
       THEN /\ svc' = [svc EXCEPT ![i] =
                 ToCatch(CommitFailed(svc[i]), "uCatch", SvcPgError(fault, ""))]
            /\ UNCHANGED <<colleges, users>>
       ELSE LET r == Commit(svc[i]) IN
            /\ svc' = [svc EXCEPT ![i] = [Release(r.svc) EXCEPT !.pc = "done",
                                                               !.returned = TRUE]]
            /\ colleges' = r.db.colleges
            /\ users' = r.db.users
  /\ UNCHANGED SvcFrame

\* catch (err) { try { ROLLBACK } catch { log }; translate; throw }
\* finally { client.release() }: releasing a client a second time throws,
\* and that error replaces the one being thrown.
UserCreateCatch(i, rollbackFails) ==
  /\ svc[i].pc = "uCatch"
  /\ svc' = [svc EXCEPT ![i] =
       LET s == Release(IF rollbackFails THEN RollbackFailed(svc[i])
                                          ELSE Rollback(svc[i])) IN
       [s EXCEPT !.pc = "done",
                 !.thrown = IF s.releases > 1 THEN RELEASED_TWICE
                                              ELSE UserCreateTranslate(svc[i].err)]]
  /\ UNCHANGED <<SvcFrame, colleges, users>>

\* Time passes on the database server.
Tick ==
  /\ now < MaxNow
  /\ now' = now + 1
  /\ UNCHANGED <<poolVars, calls, last, colleges, tenants, users, gate, students, tx,
                 closing, req, svc>>

\* The caller calls again.
SvcReturn(i) ==
  /\ svc[i].pc = "done"
  /\ svc' = [svc EXCEPT ![i] = IdleSvc]
  /\ UNCHANGED <<SvcFrame, colleges, users>>

vars ==
  <<tenantPools, tenantMetadata, built, calls, last, colleges, tenants, users, gate, students, tx,
    closing, req, svc, now>>

(***************************************************************************)
(* SpecPool: callers of the pool manager.                                  *)
(***************************************************************************)
WorldUsers(st) ==
  [d \in Databases |-> [id \in SubjectIds |->
    IF d = "main" /\ id = "u1" THEN UserRow(STATUS.ACTIVE, ROLES.ADMIN, "cA")
    ELSE IF d = "main" /\ id = "u2" THEN UserRow(STATUS.ACTIVE, ROLES.TEACHER, "cB")
    ELSE IF d = "pg://a" /\ id = "u2" /\ st # Null THEN UserRow(st, ROLES.TEACHER, "cB")
    ELSE NoRow]]

WorldColleges ==
  [c \in CollegeIds |->
    [tenant_id |-> IF c = "cA" THEN "t1" ELSE "t2",
     college_subdomain |-> IF c = "cA" THEN "alpha" ELSE "beta",
     college_status |-> STATUS.ACTIVE]]

WorldTenants ==
  [t \in TenantIds |->
    IF t = "t1"
      THEN [tenant_name |-> "default", db_url |-> Null, status |-> STATUS.ACTIVE]
      ELSE [tenant_name |-> "acme", db_url |-> "pg://a", status |-> STATUS.ACTIVE]]

ExtInit ==
  /\ closing = IdleClosing
  /\ req = IdleReq
  /\ svc = [i \in SvcIds |-> IdleSvc]
  /\ now = 0

WorldInit ==
  /\ colleges = WorldColleges
  /\ tenants = WorldTenants
  /\ \E st \in USER_STATUSES \cup {Null} : users = WorldUsers(st)

InitPool ==
  /\ PoolInit
  /\ ExtInit
  /\ calls = [c \in Callers |-> NoCall]
  /\ last = NoLast
  /\ WorldInit
  /\ users["pg://a"]["u2"].user_status = STATUS.ACTIVE
  /\ gate = IdleGate
  /\ students = {}
  /\ tx = [i \in TxIds |-> IdleTx]

NextPool ==
  \E c \in Callers, tenant \in Descriptors, ctorThrows \in BOOLEAN :
    /\ CallGetPoolForTenant(c, tenant, ctorThrows)
    /\ UNCHANGED <<colleges, tenants, users, gate, students, tx, extVars>>

SpecPool == InitPool /\ [][NextPool]_vars

(***************************************************************************)
(* SpecGate: one request at a time through authMiddleware, with the        *)
(* services changing the stored records between its awaits.                *)
(***************************************************************************)
InitGate ==
  /\ PoolInit
  /\ ExtInit
  /\ calls = [c \in Callers |-> NoCall]
  /\ last = NoLast
  /\ WorldInit
  /\ gate = IdleGate
  /\ students = {}
  /\ tx = [i \in TxIds |-> IdleTx]

NextGate ==
  \/ \E h \in AuthHeaders, t \in Tokens, x \in TenantCtxs :
       /\ h # <<"Bearer", "tok">> => t = BadToken /\ x = NoTenantCtx
       /\ GateBegin(h, t, x)
  \/ \E fails \in BOOLEAN : GateConnect(fails)
  \/ \E fails \in BOOLEAN : GateCollegeQuery(fails)
  \/ \E fails \in BOOLEAN, ctorThrows \in BOOLEAN : GateTenantQuery(fails, ctorThrows)
  \/ \E fails \in BOOLEAN : GateUserQuery(fails)
  \/ GateNextRequest
  \/ \E u \in UserIds, c \in CollegeIds : UserServiceDelete(u, c)
  \/ \E u \in UserIds, c \in CollegeIds, r \in UserRoles,
         st \in {STATUS.ACTIVE, STATUS.INACTIVE} :
       UserServiceUpdate(u, c, r, st)
  \/ \E c \in CollegeIds, st \in {STATUS.ACTIVE, STATUS.INACTIVE} :
       CollegeServiceUpdateStatus(c, st)
  \/ \E t \in TenantIds, st \in {STATUS.ACTIVE, STATUS.INACTIVE} :
       TenantServiceUpdateStatus(t, st)

SpecGate == InitGate /\ [][NextGate]_vars
(***************************************************************************)
(* SpecTx: concurrent requests running the transactional services.        *)
(***************************************************************************)
RegisterColleges == CollegeIds \cup {"cX"}

InitTx ==
  /\ PoolInit
  /\ ExtInit
  /\ calls = [c \in Callers |-> NoCall]
  /\ last = NoLast
  /\ WorldInit
  /\ users["pg://a"]["u2"].user_status = STATUS.ACTIVE
  /\ gate = IdleGate
  /\ students \in {{}, {[college_id |-> "cB", student_email |-> "a@x"]}}
  /\ tx = [i \in TxIds |-> IdleTx]

NextTx ==
  \E i \in TxIds :
    \/ \E c \in RegisterColleges, e \in Emails : RegisterStart(i, c, e)
    \/ RegisterCollegeQuery(i)
    \/ RegisterEmailCheck(i)
    \/ \E code \in {"", DB_ERROR_CODES.UNIQUE_VIOLATION, SERIALIZATION_FAILURE,
                     QUERY_CANCELED} :
         RegisterInsert(i, code)
    \/ RegisterCommit(i)
    \/ \E c \in CollegeIds, sd \in {Null} \cup Subdomains,
           st \in {Null, STATUS.INACTIVE} : CollegeUpdateStart(i, c, sd, st)
    \/ CollegeUpdateCheck(i)
    \/ CollegeUpdateWrite(i)
    \/ CollegeUpdateCommit(i)

SpecTx == InitTx /\ [][NextTx]_vars

(***************************************************************************)
(* SpecClose: requests obtain pools, then the shutdown hook runs           *)
(* closeAllPools once the server has stopped serving.                      *)
(***************************************************************************)
CloseDescriptors ==
  [tenant_id : {"T2", "T3"}, tenant_name : {"acme"}, db_url : DbUrlVals]

InitClose == InitPool

NextClose ==
  \/ \E c \in Callers, tenant \in CloseDescriptors, ctorThrows \in BOOLEAN :
       /\ closing.pc = "idle"
       /\ CallGetPoolForTenant(c, tenant, ctorThrows)
       /\ UNCHANGED <<colleges, tenants, users, gate, students, tx, extVars>>
  \/ CloseAllPoolsStart
  \/ \E fails \in BOOLEAN : CloseMainPool(fails)
  \/ \E fails \in BOOLEAN : CloseTenantPool(fails)

SpecClose == InitClose /\ [][NextClose]_vars

(***************************************************************************)
(* SpecResolver: one request at a time through tenantResolver, with        *)
(* colleges being deactivated and reactivated meanwhile.                   *)
(***************************************************************************)
InitResolver == InitPool

NextResolver ==
  \/ \E host \in Hosts : ResolverBegin(host)
  \/ \E fails \in BOOLEAN, c \in CollegeIds : ResolverQuery(fails, c)
  \/ ResolverNextRequest
  \/ \E c \in CollegeIds, st \in {STATUS.ACTIVE, STATUS.INACTIVE} :
       CollegeServiceUpdateStatus(c, st)

SpecResolver == InitResolver /\ [][NextResolver]_vars

(***************************************************************************)
(* SpecCreate: concurrent calls of CollegeService.create, one per caller.  *)
(***************************************************************************)
SvcFaults == {"", QUERY_CANCELED}
CommitFaults == {"", SERIALIZATION_FAILURE}

InitCreate == InitPool

NextCreate ==
  \E i \in SvcIds :
    \/ \E sd \in NewSubdomains, e \in AdminEmails, fails \in BOOLEAN :
         CollegeCreateStart(i, sd, e, fails)
    \/ \E fault \in SvcFaults : CollegeCreateBegin(i, fault)
    \/ \E fault \in SvcFaults : CollegeCreateSubdomainCheck(i, fault)
    \/ \E fault \in SvcFaults : CollegeCreateInsertCollege(i, fault)
    \/ \E fails \in BOOLEAN : CollegeCreateHash(i, fails)
    \/ \E fault \in SvcFaults : CollegeCreateInsertUser(i, fault)
    \/ \E fault \in CommitFaults : CollegeCreateCommit(i, fault)
    \/ \E rollbackFails \in BOOLEAN : CollegeCreateCatch(i, rollbackFails)

SpecCreate == InitCreate /\ [][NextCreate]_vars

(***************************************************************************)
(* SpecDelete: repeated and concurrent calls of UserService.delete while   *)
(* the database clock advances.  Every row of users carries updated_at.    *)
(***************************************************************************)
Stamped(us) ==
  [d \in DOMAIN us |-> [id \in DOMAIN us[d] |->
    IF us[d][id].found THEN us[d][id] @@ [updated_at |-> 0] ELSE us[d][id]]]

InitDelete ==
  /\ PoolInit
  /\ ExtInit
  /\ calls = [c \in Callers |-> NoCall]
  /\ last = NoLast
  /\ colleges = WorldColleges
  /\ tenants = WorldTenants
  /\ users = Stamped(WorldUsers(STATUS.ACTIVE))
  /\ gate = IdleGate
  /\ students = {}
  /\ tx = [i \in TxIds |-> IdleTx]

NextDelete ==
  \/ Tick
  \/ \E i \in SvcIds :
       \/ \E v \in DeleteVersions, u \in UserIds, c \in CollegeIds \cup {"cX"},
             fails \in BOOLEAN : UserDeleteStart(i, v, u, c, fails)
       \/ \E fault \in SvcFaults : UserDeleteCollegeQuery(i, fault)
       \/ \E fault \in SvcFaults : UserDeleteTenantQuery(i, fault)
       \/ \E fails \in BOOLEAN : UserDeleteConnect(i, fails)
       \/ \E fault \in SvcFaults : UserDeleteBegin(i, fault)
       \/ \E fault \in SvcFaults \cup {SERIALIZATION_FAILURE} : UserDeleteUpdate(i, fault)
       \/ \E fault \in CommitFaults : UserDeleteCommit(i, fault)
       \/ \E rollbackFails \in BOOLEAN : UserDeleteCatch(i, rollbackFails)
       \/ SvcReturn(i)

SpecDelete == InitDelete /\ [][NextDelete]_vars

(***************************************************************************)
(* SpecUserCreate: concurrent calls of the per-tenant UserService.create,  *)
(* with a college and a tenant being deactivated and reactivated.          *)
(***************************************************************************)
NextUserCreate ==
  \/ \E i \in SvcIds :
       \/ \E c \in UserCreateColleges, e \in UserCreateEmails, r \in UserCreateRoles,
             fails \in BOOLEAN : UserCreateStart(i, c, e, r, fails)
       \/ \E fault \in SvcFaults : UserCreateCollegeQuery(i, fault)
       \/ \E fault \in SvcFaults : UserCreateTenantQuery(i, fault)
       \/ \E fails \in BOOLEAN : UserCreateConnect(i, fails)
       \/ \E fault \in SvcFaults : UserCreateBegin(i, fault)
       \/ \E fails \in BOOLEAN : UserCreateHash(i, fails)
       \/ \E fault \in SvcFaults : UserCreateEmailCheck(i, fault)
       \/ \E fault \in SvcFaults : UserCreateInsert(i, fault)
       \/ \E fault \in CommitFaults : UserCreateCommit(i, fault)
       \/ \E rollbackFails \in BOOLEAN : UserCreateCatch(i, rollbackFails)
       \/ SvcReturn(i)
  \/ \E st \in {STATUS.ACTIVE, STATUS.INACTIVE} : CollegeServiceUpdateStatus("cB", st)
  \/ \E st \in {STATUS.ACTIVE, STATUS.INACTIVE} : TenantServiceUpdateStatus("t1", st)

SpecUserCreate == InitPool /\ [][NextUserCreate]_vars

(***************************************************************************)
(* SpecShutdown: requests obtain pools until a termination signal arrives. *)
(***************************************************************************)
InitShutdown ==
  /\ PoolInit
  /\ \E h \in ServerTexts : closing = [IdleClosing EXCEPT !.hook = h]
  /\ req = IdleReq
  /\ svc = [i \in SvcIds |-> IdleSvc]
  /\ now = 0
  /\ calls = [c \in Callers |-> NoCall]
  /\ last = NoLast
  /\ colleges = WorldColleges
  /\ tenants = WorldTenants
  /\ users = WorldUsers(STATUS.ACTIVE)
  /\ gate = IdleGate
  /\ students = {}
  /\ tx = [i \in TxIds |-> IdleTx]

NextShutdown ==
  \/ \E c \in Callers, tenant \in CloseDescriptors, ctorThrows \in BOOLEAN :
       /\ closing.signal = "none"
       /\ CallGetPoolForTenant(c, tenant, ctorThrows)
       /\ UNCHANGED <<colleges, tenants, users, gate, students, tx, extVars>>
  \/ \E sig \in Signals : ReceiveSignal(sig)
  \/ ServerCloseCallback
  \/ \E fails \in BOOLEAN : CloseMainPool(fails)
  \/ \E fails \in BOOLEAN : CloseTenantPool(fails)
  \/ ProcessExit

SpecShutdown == InitShutdown /\ [][NextShutdown]_vars

(***************************************************************************)
(* SpecRole: requests through authMiddleware and requireRole.              *)
(***************************************************************************)
InitRole == InitPool

NextRole ==
  \/ \E h \in AuthHeaders, t \in Tokens, x \in TenantCtxs :
       /\ h # <<"Bearer", "tok">> => t = BadToken /\ x = NoTenantCtx
       /\ GateBegin(h, t, x)
  \/ \E fails \in BOOLEAN : GateConnect(fails)
  \/ \E fails \in BOOLEAN : GateCollegeQuery(fails)
  \/ \E fails \in BOOLEAN, ctorThrows \in BOOLEAN : GateTenantQuery(fails, ctorThrows)
  \/ \E fails \in BOOLEAN : GateUserQuery(fails)
  \/ GateNextRequest
  \/ \E allowedRoles \in AllowedRoleLists : RequireRoleAfterGate(allowedRoles)
  \/ \E allowedRoles \in AllowedRoleLists : RequireRoleAlone(allowedRoles)

SpecRole == InitRole /\ [][NextRole]_vars

(***************************************************************************)
(* SpecGateLive: authMiddleware alone, one request after the other.  Every *)
(* await of the gate settles: pools are built with connectionTimeoutMillis *)
(* and statement_timeout, so a connect or a query either resolves or       *)
(* rejects.                                                                *)
(***************************************************************************)
GateAwaitSettles ==
  \/ \E fails \in BOOLEAN : GateConnect(fails)
  \/ \E fails \in BOOLEAN : GateCollegeQuery(fails)
  \/ \E fails \in BOOLEAN, ctorThrows \in BOOLEAN : GateTenantQuery(fails, ctorThrows)
  \/ \E fails \in BOOLEAN : GateUserQuery(fails)

NextGateLive ==
  \/ \E h \in AuthHeaders, t \in Tokens, x \in TenantCtxs :
       /\ h # <<"Bearer", "tok">> => t = BadToken /\ x = NoTenantCtx
       /\ GateBegin(h, t, x)
  \/ GateAwaitSettles
  \/ GateNextRequest

SpecGateLive == InitPool /\ [][NextGateLive]_vars /\ WF_vars(GateAwaitSettles)

(***************************************************************************)
(* Properties.                                                             *)
(***************************************************************************)
\* The subject's record in the partition the gate reads it from.
Persisted == users[PoolDb(gate.tenantPool)][gate.payload.id]

\* The request has passed steps 1-4: token verified, record loaded and active.
IdentityAccepted ==
  /\ gate.pc = "done"
  /\ gate.tokenValid
  /\ gate.payload.role # ROLES.SYSADMIN
  /\ gate.dbUser.found
  /\ gate.dbUser.user_status = STATUS.ACTIVE

CrossTenant ==
  /\ gate.tenantCtx.resolved
  /\ gate.dbUser.found
  /\ Persisted.college_id # gate.tenantCtx.college_id

\* C1: a non-platform-admin request whose tenant context is college B and
\* whose subject's persisted record belongs to college A # B never reaches
\* the handler, and once the subject's identity has been accepted it is
\* answered 403.
C1_CrossTenantForbidden ==
  (gate.pc = "done" /\ gate.payload.role # ROLES.SYSADMIN /\ CrossTenant) =>
    /\ ~gate.nextCalled
    /\ ~gate.user.attached
    /\ IdentityAccepted => gate.status = HTTP_STATUS.FORBIDDEN

C1_Witness ==
  /\ IdentityAccepted
  /\ CrossTenant
  /\ gate.status = HTTP_STATUS.FORBIDDEN
  /\ gate.payload.id = "u1"
  /\ gate.tenantCtx.college_id = "cB"

\* C2: two concurrent registerStudent requests with the same email and the
\* same college, for an email no student holds yet, end with exactly one 201
\* and one 409.
SameNewStudent(i, j) ==
  /\ i # j
  /\ tx[i].op = "registerStudent" /\ tx[j].op = "registerStudent"
  /\ tx[i].pc = "done" /\ tx[j].pc = "done"
  /\ tx[i].student_email = tx[j].student_email
  /\ tx[i].college_id = tx[j].college_id
  /\ tx[i].snap.taken /\ tx[j].snap.taken
  /\ \A t \in {tx[i], tx[j]} :
       /\ ~MessageIncludes(t.thrown.message, "not found")
       /\ ~MessageIncludes(t.thrown.message, "inactive")
       /\ t.dbErr.code # QUERY_CANCELED
  /\ \E t \in {tx[i], tx[j]} :
       \A row \in t.snap.students : Lower(row.student_email) # Lower(t.student_email)

C2_OneCreatedOneConflict ==
  \A i, j \in TxIds :
    SameNewStudent(i, j) =>
      {tx[i].http, tx[j].http} = {HTTP_STATUS.CREATED, HTTP_STATUS.CONFLICT}

\* C3: when the gate loads the record of a subject whose persisted status is
\* not active at that moment, the request is answered 401 and the handler is
\* never called.
C3_InactiveSubjectRejected ==
  [][(/\ gate.pc = "userQuery"
      /\ gate'.dbUser.found
      /\ Persisted.user_status # STATUS.ACTIVE)
     => (/\ gate'.pc = "done"
         /\ gate'.status = HTTP_STATUS.UNAUTHORIZED
         /\ ~gate'.nextCalled
         /\ ~gate'.user.attached)]_vars

C3_Witness ==
  /\ gate.pc = "done"
  /\ gate.tokenValid
  /\ gate.payload.id = "u1"
  /\ gate.dbUser.found
  /\ gate.dbUser.user_status = STATUS.INACTIVE
  /\ gate.status = HTTP_STATUS.UNAUTHORIZED
  /\ ~gate.nextCalled

\* C4: simultaneous getPoolForTenant calls for one connection string
\* construct exactly one pool for it, and every caller receives that pool.
BuiltFor(dbKey) == {n \in 1..Len(built) : built[n] = dbKey}

C4_SingleFlight ==
  \A c1, c2 \in Callers :
    (/\ calls[c1].ret \notin {NoPool, MainPool}
     /\ calls[c2].ret \notin {NoPool, MainPool}
     /\ calls[c1].db_url = calls[c2].db_url)
    => /\ calls[c1].ret = calls[c2].ret
       /\ BuiltFor(calls[c1].db_url) = {calls[c1].ret}

C4_Witness ==
  \E c1, c2 \in Callers :
    /\ c1 # c2
    /\ calls[c1].db_url = "pg://a" /\ calls[c2].db_url = "pg://a"
    /\ calls[c1].ret # NoPool /\ calls[c2].ret = calls[c1].ret

\* C5: the role and college id of the principal the gate attaches to a
\* non-platform-admin request are those of the subject's persisted record
\* at the time of the request, and that record's status is active.
C5_PrincipalFromStorage ==
  [][(gate'.nextCalled /\ ~gate.nextCalled /\ gate'.payload.role # ROLES.SYSADMIN)
     => (/\ gate'.user.role = Persisted.user_role
         /\ gate'.user.college_id = Persisted.college_id
         /\ Persisted.user_status = STATUS.ACTIVE)]_vars

\* C6: a non-platform-admin request whose subject's college or tenant is not
\* active is never passed to the handler.
C6_InactiveCollegeOrTenantRejected ==
  [][(gate'.nextCalled /\ ~gate.nextCalled /\ gate'.payload.role # ROLES.SYSADMIN)
     => (/\ colleges[Persisted.college_id].college_status = STATUS.ACTIVE
         /\ tenants[colleges[Persisted.college_id].tenant_id].status = STATUS.ACTIVE)]_vars

\* C7: a unique-constraint violation raised by the database in the write
\* step of a service operation ends with the transaction rolled back and an
\* already-exists domain error, never the raw database error.
C7_UniqueViolationTranslated ==
  \A i \in TxIds :
    (tx[i].pc = "done" /\ tx[i].dbErr.code = DB_ERROR_CODES.UNIQUE_VIOLATION) =>
      /\ tx[i].rolledBack
      /\ ~tx[i].committed
      /\ tx[i].thrown.code = ""
      /\ MessageIncludes(tx[i].thrown.message, "already exists")

\* C8: the gate looks a subject up in the table that stores subjects of the
\* token's role, and looks nothing up for the platform-admin role.
C8_RoleTableLookup ==
  IF gate.tokenValid /\ gate.payload.role = ROLES.SYSADMIN
    THEN gate.lookupTable = ""
    ELSE gate.lookupTable # "" => gate.lookupTable = TableStoring(gate.payload.role)

\* C9: a call whose connection string is cached returns the cached pool and
\* constructs nothing; calls with distinct connection strings got distinct
\* pools; no pool is cached under two keys.
C9_OnePoolPerKey ==
  /\ (/\ last.ret # NoPool
      /\ ~UsesMainPool(last.tenant)
      /\ last.tenant.db_url \in DOMAIN last.before)
     => /\ last.ret = last.before[last.tenant.db_url]
        /\ Len(built) = last.builtBefore
  /\ \A c1, c2 \in Callers :
       (/\ calls[c1].ret \notin {NoPool, MainPool}
        /\ calls[c2].ret \notin {NoPool, MainPool}
        /\ calls[c1].db_url # calls[c2].db_url)
       => calls[c1].ret # calls[c2].ret
  /\ \A k1, k2 \in DOMAIN tenantPools :
       tenantPools[k1] = tenantPools[k2] => k1 = k2
  /\ \A k \in DOMAIN tenantPools : tenantPools[k] # MainPool /\ built[tenantPools[k]] = k

C9_Witness ==
  /\ last.ret # NoPool
  /\ last.tenant.db_url = "pg://b"
  /\ "pg://b" \in DOMAIN last.before
  /\ \E c \in Callers : calls[c].db_url = "pg://a" /\ calls[c].ret \notin {NoPool, MainPool}

\* C10 (as claimed): every call with a malformed descriptor (missing or empty
\* tenant id or tenant name) raises a validation error and adds no cache entry.
Malformed(tenant) ==
  /\ tenant # NullTenant
  /\ ~Truthy(tenant.tenant_id) \/ ~Truthy(tenant.tenant_name)

RaisedValidation ==
  /\ last.thrown.message \in ValidationMessages
  /\ last.ret = NoPool
  /\ tenantPools = last.before
  /\ Len(built) = last.builtBefore

C10_MalformedAlwaysRaises ==
  (last.caller # 0 /\ Malformed(last.tenant)) => RaisedValidation

\* C10 (amended): a call with a malformed descriptor that carries a
\* connection string raises a validation error and adds no cache entry.
C10_MalformedWithUrlRaises ==
  (last.caller # 0 /\ Malformed(last.tenant) /\ Truthy(last.tenant.db_url))
    => RaisedValidation

C10_Witness ==
  /\ last.caller # 0
  /\ last.tenant.tenant_id = "T2"
  /\ last.tenant.tenant_name = ""
  /\ last.tenant.db_url = "pg://a"
  /\ "pg://b" \in DOMAIN tenantPools
  /\ RaisedValidation

\* C13: when the construction of a pool for tenant T throws, getPoolForTenant
\* throws an error carrying T's tenant id, returns no pool, adds no cache
\* entry and leaves every cached pool as it was.
C13_ConstructionFailureRaised ==
  (last.caller # 0 /\ last.ctor = "threw") =>
    /\ last.ret = NoPool
    /\ last.thrown.message = "Cannot create pool for tenant"
    /\ last.thrown.tenant_id = last.tenant.tenant_id
    /\ tenantPools = last.before
    /\ CacheKey(last.tenant) \notin DOMAIN tenantPools
    /\ Len(built) = last.builtBefore

C13_Witness ==
  /\ last.caller # 0
  /\ last.ctor = "threw"
  /\ last.tenant.tenant_id = "T3"
  /\ last.tenant.db_url = "pg://b"
  /\ last.thrown.tenant_id = "T3"
  /\ "pg://a" \in DOMAIN tenantPools
  /\ tenantPools = last.before

\* C11: when closeAllPools has finished, end() has been called on the main
\* pool and on every pool that was cached, whichever of them failed to close.
C11_EveryPoolCloseAttempted ==
  closing.pc = "done" => closing.attempted = {MainPool} \cup closing.cached

SecondDeleteCommits(i) ==
  /\ svc[i].op = "userDelete"
  /\ svc[i].pc = "dCommit"
  /\ svc[i].sawStatus = STATUS.INACTIVE
  /\ svc'[i].pc = "done"
  /\ svc'[i].returned

C14_SecondDeleteChangesNothing ==
  [][\A i \in SvcIds : SecondDeleteCommits(i) => users' = users]_vars

\* C14 (amended): a soft delete never removes a row and never changes a row's
\* role or college, and a soft delete of a user that is already soft-deleted
\* leaves every row as it was apart from the target row's updated_at.
SameButUpdatedAt(r1, r2) ==
  /\ r1.found = r2.found
  /\ r1.user_status = r2.user_status
  /\ r1.user_role = r2.user_role
  /\ r1.college_id = r2.college_id

C14_SecondDeleteKeepsData ==
  [][/\ \A d \in DOMAIN users : DOMAIN users'[d] = DOMAIN users[d]
     /\ \A d \in DOMAIN users : \A id \in DOMAIN users[d] :
          /\ users[d][id].found => users'[d][id].found
          /\ users'[d][id].user_role = users[d][id].user_role
          /\ users'[d][id].college_id = users[d][id].college_id
          /\ users[d][id].user_status = STATUS.INACTIVE =>
               SameButUpdatedAt(users[d][id], users'[d][id])
     /\ \A i \in SvcIds : SecondDeleteCommits(i) =>
          /\ svc'[i].thrown = NoSvcErr
          /\ \A d \in DOMAIN users : \A id \in DOMAIN users[d] :
               /\ SameButUpdatedAt(users[d][id], users'[d][id])
               /\ (d # svc[i].db \/ id # svc[i].user_id) => users'[d][id] = users[d][id]]_vars

C14_Witness ==
  \E i \in SvcIds :
    /\ svc[i].op = "userDelete" /\ svc[i].version = "tenant"
    /\ svc[i].pc = "done" /\ svc[i].returned
    /\ svc[i].sawStatus = STATUS.INACTIVE
    /\ svc[i].user_id = "u1"
    /\ users["main"]["u1"].user_status = STATUS.INACTIVE
    /\ users["main"]["u1"].updated_at = 2

\* C15: when the college lookup of tenantResolver fails, no response is sent,
\* the request carries no tenant (req.tenant = null, the requested subdomain
\* kept), and next() is called.
C15_LookupErrorPassesOn ==
  (req.pc = "done" /\ req.dbError) =>
    /\ ~req.responded
    /\ req.tenant = NoTenantCtx
    /\ req.isTenantPortal
    /\ req.requestedSubdomain = req.subdomain
    /\ req.nextCalled

C15_Witness ==
  /\ req.pc = "done"
  /\ req.dbError
  /\ req.subdomain = "alpha"
  /\ req.tenant = NoTenantCtx
  /\ req.nextCalled
  /\ colleges["cA"].college_status = STATUS.ACTIVE

\* C16 (as claimed): for every tenant label t, domain d and reserved prefix p,
\* the hosts p.t.d and t.d, with or without a port and in any letter case,
\* give the same tenant key and the same active college.
SameTenant(h1, h2) ==
  /\ getSubdomainFromHost(h1) = getSubdomainFromHost(h2)
  /\ ActiveCollegesBySubdomain(getSubdomainFromHost(h1))
       = ActiveCollegesBySubdomain(getSubdomainFromHost(h2))

WellFormedHeader(parts) == Len(parts) = 2 /\ parts[1] = "Bearer" /\ parts[2] # ""

NoDatabaseAccess(g) ==
  /\ g.client = "none"
  /\ g.tenantPool = NoPool
  /\ g.lookupTable = ""
  /\ g.college = NoCollege
  /\ g.tenant = NoTenant
  /\ g.dbUser = NoDbUser

C17_BadHeaderOrTokenNoDatabase ==
  /\ (gate.pc = "done" /\ ~WellFormedHeader(gate.authHeader)) =>
       /\ gate.status = HTTP_STATUS.UNAUTHORIZED
       /\ gate.message \in {ERROR_MESSAGES.MISSING_AUTH_HEADER,
                            ERROR_MESSAGES.INVALID_AUTH_HEADER}
       /\ ~gate.nextCalled
       /\ NoDatabaseAccess(gate)
  /\ (gate.pc = "done" /\ WellFormedHeader(gate.authHeader) /\ ~gate.tokenValid) =>
       /\ gate.status = HTTP_STATUS.UNAUTHORIZED
       /\ gate.message = ERROR_MESSAGES.INVALID_TOKEN
       /\ ~gate.nextCalled
       /\ NoDatabaseAccess(gate)
  /\ (gate.pc # "idle" /\ (~WellFormedHeader(gate.authHeader) \/ ~gate.tokenValid)) =>
       gate.pc = "done"

C17_Witness ==
  /\ gate.pc = "done"
  /\ gate.authHeader = <<"Bearer", "">>
  /\ gate.status = HTTP_STATUS.UNAUTHORIZED
  /\ NoDatabaseAccess(gate)
  /\ "pg://a" \in DOMAIN tenantPools

\* C18: the response given when the token's subject has no record (no row in
\* the main database, or none in its tenant's database) is the response given
\* for an invalid or expired token: 401 with the same message.
InvalidTokenResponse == <<HTTP_STATUS.UNAUTHORIZED, ERROR_MESSAGES.INVALID_TOKEN>>

NoRecordFor(g) ==
  \/ g.pc = "collegeQuery" /\ ~users["main"][g.payload.id].found
  \/ g.pc = "userQuery" /\ ~users[PoolDb(g.tenantPool)][g.payload.id].found

C18_NoRecordSameAsInvalidToken ==
  /\ [](((gate.pc = "done" /\ WellFormedHeader(gate.authHeader) /\ ~gate.tokenValid)
          => <<gate.status, gate.message>> = InvalidTokenResponse))
  /\ [][(NoRecordFor(gate) /\ gate'.pc = "done")
        => \/ <<gate'.status, gate'.message>> = InvalidTokenResponse
           \/ gate'.status = HTTP_STATUS.INTERNAL_SERVER_ERROR]_vars

C18_Witness ==
  /\ gate.pc = "done"
  /\ gate.tokenValid
  /\ gate.payload.id = "u2"
  /\ gate.tenantPool # NoPool /\ gate.tenantPool # MainPool
  /\ ~users[PoolDb(gate.tenantPool)]["u2"].found
  /\ <<gate.status, gate.message>> = InvalidTokenResponse

\* C19: a registration is rejected as already-exists only when its email,
\* compared case-insensitively, is used in its own college, and a
\* registration whose email is already used in its own college is rejected
\* as already-exists.
C19_EmailUniquePerCollege ==
  \A i \in TxIds :
    (tx[i].op = "registerStudent" /\ tx[i].pc = "done") =>
      /\ tx[i].thrown.message = "Email already exists"
           => EmailTaken(students, tx[i].student_email, tx[i].college_id)
      /\ (/\ tx[i].snap.taken
          /\ tx[i].dbErr = NoErr
          /\ tx[i].thrown.message \notin {"College not found", "College is inactive"}
          /\ EmailTaken(tx[i].snap.students, tx[i].student_email, tx[i].college_id))
           => tx[i].http = HTTP_STATUS.CONFLICT

\* C20: a request whose statement was cancelled by the statement timeout is
\* answered 503.
C20_TimeoutIsServiceUnavailable ==
  \A i \in TxIds :
    (tx[i].pc = "done" /\ tx[i].dbErr.code = QUERY_CANCELED) =>
      tx[i].http = HTTP_STATUS.SERVICE_UNAVAILABLE

\* C22: for the null descriptor and for every descriptor without a connection
\* string, getPoolForTenant returns the pool getMainPool returns, throws
\* nothing, constructs nothing and leaves the cache as it was.
NoConnectionString(tenant) == tenant = NullTenant \/ tenant.db_url \in {Undef, Null, ""}

C22_NoConnectionStringGivesMainPool ==
  (last.caller # 0 /\ NoConnectionString(last.tenant)) =>
    /\ last.ret = getMainPool.ret
    /\ last.thrown = NoError
    /\ last.ctor = "none"
    /\ tenantPools = last.before
    /\ Len(built) = last.builtBefore

C22_Witness ==
  /\ last.caller # 0
  /\ last.tenant = [tenant_id |-> NonStr, tenant_name |-> "", db_url |-> Null]
  /\ last.ret = MainPool
  /\ "pg://a" \in DOMAIN tenantPools

\* C23: requireRole answers 401 when the request carries no principal, 403
\* when the principal's role is not among the allowed roles, and otherwise
\* calls next without a response; in every case the request (principal,
\* token payload, tenant context and the rest) is left as it was.
C23_RequireRoleOutcome ==
  [][(gate.rbac.pc = "idle" /\ gate'.rbac.pc = "done") =>
       LET r == gate'.rbac IN
       /\ ~gate.user.attached =>
            /\ r.status = HTTP_STATUS.UNAUTHORIZED
            /\ ~r.nextCalled
       /\ (gate.user.attached /\ gate.user.role \notin r.allowedRoles) =>
            /\ r.status = HTTP_STATUS.FORBIDDEN
            /\ ~r.nextCalled
       /\ (gate.user.attached /\ gate.user.role \in r.allowedRoles) =>
            /\ r.nextCalled
            /\ r.status = 0
       /\ [gate' EXCEPT !.rbac = gate.rbac, !.pc = gate.pc] = gate]_vars

C23_Witness ==
  /\ gate.rbac.pc = "done"
  /\ gate.rbac.allowedRoles = {ROLES.ADMIN}
  /\ gate.user.attached
  /\ gate.user.role = ROLES.TEACHER
  /\ gate.user.tenant_id = "t2"
  /\ gate.rbac.status = HTTP_STATUS.FORBIDDEN
  /\ ~gate.rbac.nextCalled

\* C21: once a termination signal has been received, the process is gone
\* only after closeAllPools was invoked and has finished.
C21_CloseAllBeforeExit ==
  (closing.signal # "none" /\ closing.process # "running") => closing.pc = "done"

\* C28: the handler is called only after the stages token presence, token
\* verification, identity load, status check and isolation check were passed
\* in this order, each once; a request that is not passed on ends in
\* Rejected after a prefix of these stages.
GateStages ==
  <<"TokenPresent", "TokenVerified", "IdentityLoaded", "StatusChecked", "IsolationChecked">>

RejectedAfterPrefix(trace) ==
  \E n \in 0..Len(GateStages) : trace = Append(SubSeq(GateStages, 1, n), "Rejected")

C28_AllStagesInOrder ==
  gate.pc = "done" =>
    IF gate.nextCalled THEN gate.trace = Append(GateStages, "Authenticated")
                       ELSE RejectedAfterPrefix(gate.trace)

\* C28 as amended: the above for every token whose role is not the system
\* administrator's; a system administrator's token goes from token
\* verification to the isolation check, which lets it pass.
C28_AllStagesInOrderUnlessSysadmin ==
  gate.pc = "done" =>
    IF ~gate.nextCalled THEN RejectedAfterPrefix(gate.trace)
    ELSE IF gate.payload.role # ROLES.SYSADMIN
      THEN gate.trace = Append(GateStages, "Authenticated")
      ELSE gate.trace =
             <<"TokenPresent", "TokenVerified", "IsolationChecked", "Authenticated">>

C28_Witness ==
  /\ gate.pc = "done"
  /\ gate.nextCalled
  /\ gate.payload.id = "u2"
  /\ gate.tenantPool \notin {NoPool, MainPool}
  /\ gate.trace = Append(GateStages, "Authenticated")

\* C30: a request that has left authMiddleware got exactly one response and
\* no call of next, or exactly one call of next with the principal attached
\* and no response; never more than one of the two happens, and every request
\* that entered authMiddleware leaves it.
C30_ExactlyOneOutcome ==
  /\ [](gate.pc = "done" =>
          \/ gate.sent = 1 /\ gate.nextCalls = 0 /\ ~gate.user.attached /\ gate.status # 0
          \/ gate.sent = 0 /\ gate.nextCalls = 1 /\ gate.user.attached /\ gate.status = 0)
  /\ [](gate.sent + gate.nextCalls <= 1)
  /\ ((gate.pc # "idle") ~> (gate.pc = "done"))

C30_Witness ==
  /\ gate.pc = "done"
  /\ gate.sent = 1
  /\ gate.nextCalls = 0
  /\ gate.status = HTTP_STATUS.FORBIDDEN
  /\ gate.dbUser.found

\* C27: a call of CollegeService.create in which a step failed throws that
\* step's error (translated), whether or not the ROLLBACK that follows fails.
C27_OriginalErrorPropagates ==
  \A i \in SvcIds :
    (svc[i].pc = "done" /\ svc[i].op = "collegeCreate" /\ svc[i].err # NoSvcErr) =>
      svc[i].thrown = CreateTranslate(svc[i].err)

\* C24: when a request has finished, every connection it leased has been
\* released: the gate's client is not left leased, and a service call holds
\* no connection.
C24_EveryLeaseReleased ==
  /\ gate.pc = "done" => gate.client # "leased"
  /\ \A i \in SvcIds : svc[i].pc = "done" => svc[i].held = 0

\* C25: whenever a service call releases a connection on which it had issued
\* BEGIN, it has issued, after the BEGIN and before the release, a ROLLBACK
\* or the COMMIT that succeeded; and a connection is released with its
\* transaction open only if that ROLLBACK failed.
RollbackIssued(log, b, r) ==
  \E k \in (b + 1)..(r - 1) : log[k] \in {"ROLLBACK", "ROLLBACK failed"}

C26_NoStatementOnReleased ==
  \A i \in SvcIds : ~svc[i].usedReleased

\* C29: no service call releases the same client more than once.
C29_ReleasedOnce ==
  \A i \in SvcIds : svc[i].releases <= 1

====
